---- MODULE Spec2Model ----
(***************************************************************************)
(* Model of the content-creation app.  Client side: the video-status       *)
(* poller (pollVideoStatuses), the scheduled-post publisher                *)
(* (checkScheduledPosts / publishPost / deletePost) and the data loading   *)
(* of the AppContent component, the AuthProvider (initializeAuth,          *)
(* onAuthStateChange, fetchUserProfile) and the MigrationService.  Server  *)
(* side: the handlers of the posts, library and storage-upload routes.     *)
(* External collaborators (status and fetch endpoints, media library,      *)
(* publishing service, Supabase) answer nondeterministically.              *)
(***************************************************************************)
EXTENDS Integers, Sequences, FiniteSets, Bags, TLC

VARIABLES
  posts,          \* the in-memory post collection (useState<Post[]>), in order
  cycles,         \* one record per pollVideoStatuses call, in call order
  notifications,  \* bag of the addNotification calls made so far
  now,            \* wall clock read by checkScheduledPosts
  capAuth,        \* user && workspaceId as captured by the scan's closure
  scans,          \* one record per checkScheduledPosts call, in call order
  user,           \* useAuth().user as rendered by AppContent
  workspaceId,    \* useAuth().workspaceId as rendered by AppContent
  mounted,        \* AppContent is mounted
  dataLoadedRef,  \* dataLoadedRef.current
  currentWorkspaceRef, \* currentWorkspaceRef.current
  timers,         \* bag of the live setInterval handles, by kind
  loads,          \* bag of the loadData calls in flight, by workspace
  loadedFor,      \* workspace whose posts the collection was last loaded from
  authEvents,     \* number of auth state changes and context calls so far
  session,        \* AuthProvider: session (the id of its user, 0 for null)
  loading,        \* AuthProvider: loading
  userRole,       \* AuthProvider: userRole
  fetchInProgressRef,  \* fetchInProgressRef.current
  initialLoadComplete, \* initialLoadComplete.current
  profileCacheRef,     \* profileCacheRef.current: user id -> cached promise (0: none)
  fetches,        \* one record per promise created by fetchUserProfile, in order
  evictions,      \* bag of the pending 5-minute cache eviction timers
  initializeAuth, \* the await initializeAuth() is parked at
  lastCall,       \* the last auth event or context call, and whether it was processed
  db,             \* server: the posts, post_library and activity_logs tables, the
                  \* storage bucket and the connected platforms of each workspace
  response,       \* server: the last request handled and the answer to it
  handled,        \* server: number of requests handled so far
  localStorage,   \* browser: the keys MigrationService reads and writes
  migration       \* the await migrateAllData is parked at, and its counters

lifeVars == <<user, workspaceId, mounted, dataLoadedRef, currentWorkspaceRef,
              timers, loads, loadedFor, authEvents>>
authVars == <<session, loading, userRole, fetchInProgressRef, initialLoadComplete,
              profileCacheRef, fetches, evictions, initializeAuth, lastCall>>
routeVars == <<db, response, handled>>
migVars == <<localStorage, migration>>
restVars == <<authVars, routeVars, migVars>>
vars == <<posts, cycles, notifications, now, capAuth, scans, lifeVars, restVars>>
schedVars == <<now, capAuth, scans>>

----------------------------------------------------------------------------
(* Bounds *)
NumPosts == 2
MaxTicks == 2
MaxRequests == 3
MaxScans == 2
MaxFlows == 2
MaxTime == 2
MaxEvents == 5
MaxEdits == 3
MaxFetches == 3
MaxCalls == 2
MaxHandled == 2
MaxLocal == 2
MaxRuns == 2

PostIds == 1..NumPosts

----------------------------------------------------------------------------
(* Data model *)

\* progress?: number  -- the value standing for an absent progress field
NoProgress == -1
\* scheduledAt?: string -- the value standing for an absent scheduledAt
NoSchedule == 0

\* p.videoOperation === undefined: every optional-chained read is falsy
NoOperation == [id |-> "", status |-> "", progress |-> NoProgress, error |-> ""]

JobId(p) == "v" \o ToString(p)
Topic(p) == "topic" \o ToString(p)

\* the videoData value the fetch endpoint returns for a job
FetchedUrl(vid) == "https://cdn/" \o vid \o ".mp4"

NewPost(p, st, at, gen, op, txt) ==
  [id |-> p, topic |-> Topic(p), status |-> st, scheduledAt |-> at,
   isGeneratingVideo |-> gen, videoGenerationStatus |-> txt,
   videoOperation |-> op, generatedVideoUrl |-> ""]

PendingOperation(p) ==
  [id |-> JobId(p), status |-> "pending", progress |-> NoProgress, error |-> ""]

\* positions of the collection that hold post id p
IndexOf(ps, p) == {i \in 1..Len(ps) : ps[i].id = p}
Exists(ps, p) == IndexOf(ps, p) # {}
PostOf(ps, p) == ps[CHOOSE i \in IndexOf(ps, p) : TRUE]

\* prevPosts.map(q => q.id === id ? f(q) : q)
MapById(ps, p, f(_)) == [i \in 1..Len(ps) |-> IF ps[i].id = p THEN f(ps[i]) ELSE ps[i]]

\* prevPosts.filter(q => q.id !== id)
FilterOutId(ps, p) == SelectSeq(ps, LAMBDA q : q.id # p)

Notification(type, title, postId) == [type |-> type, title |-> title, postId |-> postId]
addNotification(bag, type, title, postId) == bag (+) SetToBag({Notification(type, title, postId)})

\* user === null, workspaceId === null
NoUser == 0
NoWorkspace == 0

\* const scheduleInterval = setInterval(...); const videoPollInterval = setInterval(...)
BothIntervals == SetToBag({"schedule", "poll"})

\* a live interval of the kind exists, so its callback can fire
Running(kind) == CopiesIn(kind, timers) > 0

\* setPosts(...): a state update of an unmounted component is dropped
setPosts(new) == IF mounted THEN new ELSE posts

\* userRole === null
NoRole == ""

\* ids of the accounts that can hold the session
Users == {1, 2}

\* the AuthProvider as mounted: nothing loaded, getSession under way
FreshAuth ==
  /\ session = NoUser
  /\ loading = TRUE
  /\ userRole = NoRole
  /\ fetchInProgressRef = FALSE
  /\ initialLoadComplete = FALSE
  /\ profileCacheRef = [u \in Users |-> 0]
  /\ fetches = <<>>
  /\ evictions = EmptyBag
  /\ initializeAuth = [pc |-> "getSession", awaits |-> 0]
  /\ lastCall = [name |-> "", user |-> NoUser, processed |-> FALSE]

\* the ids a row of the posts table can have
Rows == {1, 2}

\* the server before its first request: empty tables, empty bucket
IdleServer ==
  /\ db = [posts |-> [p \in Rows |-> 0], library |-> [w \in {1, 2} |-> 0],
           logs |-> 0, files |-> 0, credentials |-> [w \in {1, 2} |-> {}]]
  /\ response = [request |-> <<>>, status |-> 0, reads |-> 0, writes |-> 0]
  /\ handled = 0

\* no stored data and no migration under way
IdleMigration ==
  /\ localStorage = [socialMediaPosts |-> [present |-> FALSE, items |-> <<>>],
                     social_media_credentials |-> [present |-> FALSE, items |-> <<>>],
                     migration_completed |-> FALSE]
  /\ migration = [pc |-> "idle", workspaceId |-> 0, i |-> 0, postsCount |-> 0,
                  credentialsCount |-> 0, errors |-> 0, runs |-> 0]

\* the AuthProvider after a finished bootstrap, with no profile fetch under way
SteadyAuth ==
  /\ session = 1
  /\ loading = FALSE
  /\ userRole = "admin"
  /\ fetchInProgressRef = FALSE
  /\ initialLoadComplete = TRUE
  /\ profileCacheRef = [u \in Users |-> 0]
  /\ fetches = <<>>
  /\ evictions = EmptyBag
  /\ initializeAuth = [pc |-> "done", awaits |-> 0]
  /\ lastCall = [name |-> "", user |-> 0, processed |-> FALSE]

\* the state of a session whose data is loaded and whose intervals run
SteadyLife ==
  /\ user = 1
  /\ workspaceId = 1
  /\ mounted = TRUE
  /\ dataLoadedRef = TRUE
  /\ currentWorkspaceRef = 1
  /\ timers = BothIntervals
  /\ loads = EmptyBag
  /\ loadedFor = 1
  /\ authEvents = 0
  /\ SteadyAuth
  /\ IdleServer
  /\ IdleMigration

----------------------------------------------------------------------------
(* pollVideoStatuses *)

\* variant: the filter looks at the in-progress flag and the job id only
IsActiveVideoPostNoStatus(p) ==
  /\ p.isGeneratingVideo
  /\ p.videoOperation.id # ""

IsActiveVideoPost(p) ==
  /\ p.isGeneratingVideo
  /\ p.videoOperation.id # ""
  /\ p.videoOperation.status # "completed"
  /\ p.videoOperation.status # "failed"

videoPosts(ps) == SelectSeq(ps, IsActiveVideoPost)

\* one status request per filtered post, in the order of the filtered list;
\* fetched: a POST /video/fetch was issued for it; applied: its completed
\* update found the post in the collection
NewRequest(p) ==
  [post |-> p.id, st |-> "pending", res |-> "", fetched |-> FALSE, applied |-> FALSE]
FanOut(vps) == [i \in 1..Len(vps) |-> NewRequest(vps[i])]

\* variant: the provider's message is used as is, without the default text
ErrorMsgNoDefault(video) == video.error

\* updatedVideo.error?.message || 'Video generation failed'
ErrorMsg(video) == IF video.error = "" THEN "Video generation failed" ELSE video.error

\* variant: the reported progress is used as is, without the default 0
ProgressNoDefault(video) == video.progress

\* updatedVideo.progress || 0
Progress(video) == IF video.progress = NoProgress THEN 0 ELSE video.progress

CompletedUpdate(p, video, url) ==
  [p EXCEPT !.generatedVideoUrl = url,
            !.isGeneratingVideo = FALSE,
            !.videoGenerationStatus = "Completed!",
            !.videoOperation = video]

\* variant: the catch block records the text but leaves the flag set
FetchFailedUpdateKeepsFlag(p) ==
  [p EXCEPT !.videoGenerationStatus = "Failed."]

FetchFailedUpdate(p) ==
  [p EXCEPT !.isGeneratingVideo = FALSE,
            !.videoGenerationStatus = "Failed."]

\* variant: the failure is recorded in the lifecycle status of the post too
FailedUpdateSetsStatus(p, video) ==
  [p EXCEPT !.isGeneratingVideo = FALSE,
            !.videoGenerationStatus = "Failed: " \o ErrorMsg(video),
            !.videoOperation = video,
            !.status = "failed"]

FailedUpdate(p, video) ==
  [p EXCEPT !.isGeneratingVideo = FALSE,
            !.videoGenerationStatus = "Failed: " \o ErrorMsg(video),
            !.videoOperation = video]

ProgressUpdate(p, video) ==
  [p EXCEPT !.videoGenerationStatus = "Processing... " \o ToString(Progress(video)) \o "%",
            !.videoOperation = video]

\* the synchronous part of the forEach callback for one settled result r
\* whose response, when fulfilled, carries the body video (data.data.video)
HandleRequest(r, video) ==
  IF r.st = "rejected" THEN [r EXCEPT !.st = "done", !.res = "rejected"]
  ELSE IF video.status = "completed" THEN [r EXCEPT !.st = "fetching", !.fetched = TRUE]
  ELSE IF video.status = "failed" THEN [r EXCEPT !.st = "done", !.res = "failed"]
  ELSE [r EXCEPT !.st = "done", !.res = "progress"]

\* variant: a rejected result is recorded on its post as a failure
HandlePostsFailsRejected(ps, r, video) ==
  IF r.st = "rejected" THEN MapById(ps, r.post, FetchFailedUpdate)
  ELSE IF video.status = "completed" THEN ps
  ELSE IF video.status = "failed"
    THEN MapById(ps, r.post, LAMBDA q : FailedUpdate(q, video))
  ELSE MapById(ps, r.post, LAMBDA q : ProgressUpdate(q, video))

HandlePosts(ps, r, video) ==
  IF r.st = "rejected" THEN ps
  ELSE IF video.status = "completed" THEN ps
  ELSE IF video.status = "failed"
    THEN MapById(ps, r.post, LAMBDA q : FailedUpdate(q, video))
  ELSE MapById(ps, r.post, LAMBDA q : ProgressUpdate(q, video))

\* variant: the first rejected result ends the processing of the results
RECURSIVE ForEachPostsStopAtRejected(_, _, _)
ForEachPostsStopAtRejected(ps, rs, bodies) ==
  IF rs = <<>> \/ Head(rs).st = "rejected" THEN ps
  ELSE ForEachPostsStopAtRejected(HandlePosts(ps, Head(rs), Head(bodies)), Tail(rs), Tail(bodies))

\* results.forEach(...): the callbacks run in result order
RECURSIVE ForEachPosts(_, _, _)
ForEachPosts(ps, rs, bodies) ==
  IF rs = <<>> THEN ps
  ELSE ForEachPosts(HandlePosts(ps, Head(rs), Head(bodies)), Tail(rs), Tail(bodies))

ForEachRequests(rs, bodies) == [i \in 1..Len(rs) |-> HandleRequest(rs[i], bodies[i])]

\* Promise.allSettled: every request of the cycle has settled
AllSettled(rs) == \A i \in 1..Len(rs) : rs[i].st # "pending"

SetReq(c, i, r) == [cycles EXCEPT ![c].reqs[i] = r]

\* setInterval(pollVideoStatuses, 15000) fires: filter, early exit or fan-out
\* number of status requests issued by the cycles cs
RECURSIVE statusCalls(_)
statusCalls(cs) == IF cs = <<>> THEN 0 ELSE Len(Head(cs).reqs) + statusCalls(Tail(cs))

PollTick ==
  /\ Running("poll")
  /\ Len(cycles) < MaxTicks
  /\ LET vps == videoPosts(posts) IN
       /\ statusCalls(cycles) + Len(vps) <= MaxRequests
       /\ cycles' = Append(cycles, [joined |-> (Len(vps) = 0), reqs |-> FanOut(vps)])
  /\ UNCHANGED <<posts, notifications, schedVars, lifeVars, restVars>>

ProgressValues == {NoProgress, 40}
ErrorValues == {"", "quota exceeded"}

CompletedBody(vid) == [id |-> vid, status |-> "completed", progress |-> NoProgress, error |-> ""]

\* the bodies data.data.video the status endpoint can answer for a job
StatusBodies(vid) ==
  {[id |-> vid, status |-> "processing", progress |-> g, error |-> ""] : g \in ProgressValues}
  \cup {CompletedBody(vid)}
  \cup {[id |-> vid, status |-> "failed", progress |-> NoProgress, error |-> e] : e \in ErrorValues}

\* fetch(...).then(response => { if (!response.ok) throw ...; return {post, data} })
SettledRequest(r, net) ==
  IF net = "ok" THEN [r EXCEPT !.st = "fulfilled"] ELSE [r EXCEPT !.st = "rejected"]

\* the status request of cycle c, position i, settles
StatusSettle(c, i) ==
  /\ cycles[c].reqs[i].st = "pending"
  /\ \E net \in {"reject", "nonok", "ok"} :
       cycles' = SetReq(c, i, SettledRequest(cycles[c].reqs[i], net))
  /\ UNCHANGED <<posts, notifications, schedVars, lifeVars, restVars>>

\* the body carried by one settled result (none when it was rejected)
BodiesOf(r) == IF r.st = "rejected" THEN {NoOperation} ELSE StatusBodies(JobId(r.post))

\* the bodies carried by the results of a cycle, one per position
RECURSIVE Bodies(_)
Bodies(rs) ==
  IF rs = <<>> THEN {<<>>}
  ELSE {<<b>> \o t : b \in BodiesOf(Head(rs)), t \in Bodies(Tail(rs))}

\* Promise.allSettled(...).then(results => results.forEach(...)); the bodies
\* of the fulfilled responses are read here for the first time
Join(c) ==
  /\ ~cycles[c].joined
  /\ AllSettled(cycles[c].reqs)
  /\ \E bodies \in Bodies(cycles[c].reqs) :
       /\ posts' = setPosts(ForEachPosts(posts, cycles[c].reqs, bodies))
       /\ cycles' = [cycles EXCEPT ![c].joined = TRUE,
                                   ![c].reqs = ForEachRequests(cycles[c].reqs, bodies)]
  /\ UNCHANGED <<notifications, schedVars, lifeVars, restVars>>

\* the catch block of the completed branch
DownloadFailed(c, i) ==
  /\ posts' = setPosts(MapById(posts, cycles[c].reqs[i].post, FetchFailedUpdate))
  /\ cycles' = SetReq(c, i, [cycles[c].reqs[i] EXCEPT !.st = "done", !.res = "fetchfailed"])
  /\ UNCHANGED <<notifications, schedVars, lifeVars, restVars>>

\* the try block of the completed branch, after both awaits returned
DownloadSucceeded(c, i) ==
  LET r == cycles[c].reqs[i] IN
  /\ posts' = setPosts(MapById(posts, r.post,
                      LAMBDA q : CompletedUpdate(q, CompletedBody(JobId(r.post)), FetchedUrl(JobId(r.post)))))
  /\ notifications' = addNotification(notifications, "video_complete", "Video Generation Complete", r.post)
  /\ cycles' = SetReq(c, i, [r EXCEPT !.st = "done", !.res = "completed", !.applied = (mounted /\ Exists(posts, r.post))])
  /\ UNCHANGED <<schedVars, lifeVars, restVars>>

\* POST /video/fetch and autoSaveAIMedia finish: the fetch rejects, answers
\* non-OK, the save throws, or both succeed
DownloadSettle(c, i) ==
  /\ cycles[c].reqs[i].st = "fetching"
  /\ \/ \E failure \in {"fetch rejected", "fetch not ok", "save failed"} : DownloadFailed(c, i)
     \/ DownloadSucceeded(c, i)

\* the user deletes a post: deletePost removes it from the list and, for a
\* known user and workspace, requests DELETE and notifies its outcome
UserDeletePost(p) ==
  /\ Exists(posts, p)
  /\ posts' = setPosts(FilterOutId(posts, p))
  /\ IF user # NoUser /\ workspaceId # NoWorkspace
       THEN \E ok \in BOOLEAN :
              notifications' =
                IF ok THEN addNotification(notifications, "post_scheduled", "Post Deleted", 0)
                ELSE addNotification(notifications, "error", "Delete Error", 0)
       ELSE UNCHANGED notifications
  /\ UNCHANGED <<cycles, schedVars, lifeVars, restVars>>

PostUpdated == Notification("post_scheduled", "Post Updated", 0)
UpdateError == Notification("error", "Update Error", 0)

\* number of updatePost and deletePost calls that reached the API
updateCalls == CopiesIn(PostUpdated, notifications) + CopiesIn(UpdateError, notifications)
deleteCalls ==
  CopiesIn(Notification("post_scheduled", "Post Deleted", 0), notifications)
    + CopiesIn(Notification("error", "Delete Error", 0), notifications)

\* user operations and poll timer firings so far
edits == updateCalls + deleteCalls + Len(cycles)

\* the Post objects the UI hands to updatePost for the post record q: q with
\* a new schedule, or the same edit made on the copy of q the editor was
\* opened with, whose video fields are those of the post as it was loaded
UpdatedPosts(q) ==
  {[q EXCEPT !.status = "scheduled", !.scheduledAt = 1],
   NewPost(q.id, "scheduled", 1, TRUE, PendingOperation(q.id), "")}

\* the user saves a post: updatePost replaces the post of that id by the
\* object it was given, requests PUT and notifies its outcome
UserUpdatePost(p) ==
  /\ Exists(posts, p)
  /\ user # NoUser /\ workspaceId # NoWorkspace
  /\ \E updatedPost \in UpdatedPosts(PostOf(posts, p)) :
       posts' = setPosts(MapById(posts, p, LAMBDA q : updatedPost))
  /\ \E ok \in BOOLEAN :
       notifications' = notifications (+) SetToBag({IF ok THEN PostUpdated ELSE UpdateError})
  /\ UNCHANGED <<cycles, schedVars, lifeVars, restVars>>

\* requests of all cycles that concern post p, as <<cycle, position>>
RequestsFor(p) ==
  {ci \in (1..Len(cycles)) \X (1..NumPosts) :
     ci[2] <= Len(cycles[ci[1]].reqs) /\ cycles[ci[1]].reqs[ci[2]].post = p}
Req(ci) == cycles[ci[1]].reqs[ci[2]]

\* number of POST /video/fetch requests issued for the job of post p
fetchCalls(p) == Cardinality({ci \in RequestsFor(p) : Req(ci).fetched})
\* number of times generatedVideoUrl of post p was assigned
urlSets(p) == Cardinality({ci \in RequestsFor(p) : Req(ci).applied})

----------------------------------------------------------------------------
(* Initial states of the poller *)

\* video-related states a post can be loaded in
InitialVideoStates(p) ==
  { [gen |-> FALSE, op |-> NoOperation],
    [gen |-> TRUE,  op |-> NoOperation],
    [gen |-> TRUE,  op |-> PendingOperation(p)],
    [gen |-> TRUE,  op |-> [PendingOperation(p) EXCEPT !.status = "completed"]],
    [gen |-> TRUE,  op |-> [PendingOperation(p) EXCEPT !.status = "failed"]] }

InitPoll ==
  /\ \E v \in [PostIds -> UNION {InitialVideoStates(p) : p \in PostIds}] :
       /\ \A p \in PostIds : v[p] \in InitialVideoStates(p)
       /\ posts = [p \in PostIds |-> NewPost(p, "draft", NoSchedule, v[p].gen, v[p].op, "")]
  /\ cycles = <<>>
  /\ notifications = EmptyBag
  /\ now = 1
  /\ capAuth = TRUE
  /\ scans = <<>>
  /\ SteadyLife

NextPoll ==
  \/ PollTick
  \/ \E c \in 1..Len(cycles) : \E i \in 1..Len(cycles[c].reqs) : StatusSettle(c, i)
  \/ \E c \in 1..Len(cycles) : Join(c)
  \/ \E c \in 1..Len(cycles) : \E i \in 1..Len(cycles[c].reqs) : DownloadSettle(c, i)

\* the poller alone
SpecPoll == InitPoll /\ [][NextPoll]_vars

\* every loaded post has a video job in progress
InitEdit ==
  /\ posts = [p \in PostIds |-> NewPost(p, "draft", NoSchedule, TRUE, PendingOperation(p), "")]
  /\ cycles = <<>>
  /\ notifications = EmptyBag
  /\ now = 1
  /\ capAuth = TRUE
  /\ scans = <<>>
  /\ SteadyLife

NextEdit ==
  \/ edits < MaxEdits /\ PollTick
  \/ \E c \in 1..Len(cycles) : \E i \in 1..Len(cycles[c].reqs) : StatusSettle(c, i)
  \/ \E c \in 1..Len(cycles) : Join(c)
  \/ \E c \in 1..Len(cycles) : \E i \in 1..Len(cycles[c].reqs) : DownloadSettle(c, i)
  \/ edits < MaxEdits /\ \E p \in PostIds : UserDeletePost(p)
  \/ edits < MaxEdits /\ \E p \in PostIds : UserUpdatePost(p)

\* the poller while the user deletes and saves posts
SpecEdit == InitEdit /\ [][NextEdit]_vars

----------------------------------------------------------------------------
(* checkScheduledPosts, publishPost, deletePost *)

\* variant: the scan looks at the schedule only, not at the lifecycle status
IsReadyToPublishAnyStatus(post, t) ==
  /\ post.scheduledAt # NoSchedule
  /\ post.scheduledAt <= t

\* post.status === 'scheduled' && post.scheduledAt && new Date(post.scheduledAt) <= now
IsReadyToPublish(post, t) ==
  /\ post.status = "scheduled"
  /\ post.scheduledAt # NoSchedule
  /\ post.scheduledAt <= t

readyToPublish(ps, t) == SelectSeq(ps, LAMBDA post : IsReadyToPublish(post, t))

\* the publish flow of one entry of a batch: st is the await it is parked at;
\* the other fields record what happened to it
NewFlow ==
  [st |-> "todo", succ |-> 0, invalid |-> FALSE, threw |-> FALSE,
   archiveFailed |-> FALSE, deleteFailed |-> FALSE, errNotified |-> FALSE]

NewScan(batch) == [batch |-> [k \in 1..Len(batch) |-> batch[k].id],
                   flows |-> [k \in 1..Len(batch) |-> NewFlow]]

\* per-platform results of publishingService.publishPost, as the number of
\* results with success = true and the number of results
PublishResults == {<<0, 1>>, <<1, 2>>}

\* verdicts of validatePostForPublishing for the entries of a batch of n that
\* the loop reaches from entry k on: some are invalid, then one is valid
Verdicts(n, k) == {[i \in 1..n |-> i >= j] : j \in k..(n + 1)}

\* validation.valid is false: 'Validation Error' notification, return
InvalidFlow(f) == [f EXCEPT !.st = "done", !.invalid = TRUE, !.errNotified = TRUE]

\* variant: the loop does not wait for a publish flow before the next entry
RunLoopNoAwait(flows, k, valid) ==
  [i \in 1..Len(flows) |->
     IF i < k THEN flows[i]
     ELSE IF valid[i] THEN [flows[i] EXCEPT !.st = "publishing"]
     ELSE InvalidFlow(flows[i])]

\* the for loop goes on from entry k: entries failing validation return at
\* once, the first valid entry parks at await publishingService.publishPost
RECURSIVE RunLoop(_, _, _)
RunLoop(flows, k, valid) ==
  IF k > Len(flows) THEN flows
  ELSE IF valid[k] THEN [flows EXCEPT ![k].st = "publishing"]
  ELSE RunLoop([flows EXCEPT ![k] = InvalidFlow(flows[k])], k + 1, valid)

\* the 'Validation Error' notifications of the entries that RunLoop returned from
RECURSIVE ValidationErrors(_, _, _, _)
ValidationErrors(bag, flows, k, valid) ==
  IF k > Len(flows) \/ valid[k] THEN bag
  ELSE ValidationErrors(addNotification(bag, "error", "Validation Error", 0), flows, k + 1, valid)

\* publish flows started or queued by the scans so far
RECURSIVE flowCount(_)
flowCount(ss) == IF ss = <<>> THEN 0 ELSE Len(Head(ss).batch) + flowCount(Tail(ss))

\* the entry of scan s whose publish flow is parked at an await (0: none)
Current(s) ==
  IF \E k \in 1..Len(scans[s].flows) : scans[s].flows[k].st \notin {"todo", "done"}
    THEN CHOOSE k \in 1..Len(scans[s].flows) : scans[s].flows[k].st \notin {"todo", "done"}
  ELSE 0

\* setInterval(checkScheduledPosts, 60000) fires at time t (new Date()):
\* filter, then the loop runs up to its first await
SchedTickAt(t) ==
  /\ Running("schedule")
  /\ Len(scans) < MaxScans
  /\ now' = t
  /\ LET sc == NewScan(readyToPublish(posts, t)) IN
       /\ flowCount(scans) + Len(sc.batch) <= MaxFlows
       /\ \E valid \in Verdicts(Len(sc.batch), 1) :
            /\ scans' = Append(scans, [sc EXCEPT !.flows = RunLoop(sc.flows, 1, valid)])
            /\ notifications' = ValidationErrors(notifications, sc.flows, 1, valid)
  /\ UNCHANGED <<posts, cycles, capAuth, lifeVars, restVars>>

\* the clock never runs backwards between two firings
SchedTick == \E t \in now..MaxTime : SchedTickAt(t)

\* the flow of entry k of scan s ends with flow record f; the loop goes on
FinishFlow(s, k, f, bag) ==
  \E valid \in Verdicts(Len(scans[s].flows), k + 1) :
    /\ scans' = [scans EXCEPT ![s].flows = RunLoop([scans[s].flows EXCEPT ![k] = f], k + 1, valid)]
    /\ notifications' = ValidationErrors(bag, scans[s].flows, k + 1, valid)

\* catch of publishPost: 'Publishing Error' notification
CatchPublish(s, k, f) ==
  FinishFlow(s, k, [f EXCEPT !.st = "done", !.errNotified = TRUE],
             addNotification(notifications, "error", "Publishing Error", 0))

\* the tail of publishPost: 'Post Published' notification with the counts
Published(s, k, f, bag) ==
  FinishFlow(s, k, [f EXCEPT !.st = "done", !.succ = 0],
             addNotification(bag, "post_published", "Post Published", scans[s].batch[k]))

\* await publishingService.publishPost(post) returns the results or throws
PublishSettle(s) ==
  LET k == Current(s) IN
  /\ k # 0
  /\ scans[s].flows[k].st = "publishing"
  /\ \/ /\ CatchPublish(s, k, [scans[s].flows[k] EXCEPT !.threw = TRUE])
        /\ UNCHANGED posts
     \/ \E res \in PublishResults :
          IF capAuth
            THEN /\ scans' = [scans EXCEPT ![s].flows[k].st = "archiving", ![s].flows[k].succ = res[1]]
                 /\ UNCHANGED <<posts, notifications>>
            ELSE /\ posts' = setPosts(FilterOutId(posts, scans[s].batch[k]))
                 /\ Published(s, k, [scans[s].flows[k] EXCEPT !.succ = res[1]], notifications)
  /\ UNCHANGED <<cycles, now, capAuth, lifeVars, restVars>>

\* await fetch('/api/library', ...) rejects, or answers (response.ok is not
\* looked at); then deletePost removes the post locally and requests DELETE
ArchiveSettle(s) ==
  LET k == Current(s) IN
  /\ k # 0
  /\ scans[s].flows[k].st = "archiving"
  /\ \/ /\ CatchPublish(s, k, [scans[s].flows[k] EXCEPT !.archiveFailed = TRUE])
        /\ UNCHANGED posts
     \/ \E ok \in BOOLEAN :
          /\ posts' = setPosts(FilterOutId(posts, scans[s].batch[k]))
          /\ scans' = [scans EXCEPT ![s].flows[k].st = "deleting",
                                    ![s].flows[k].archiveFailed = ~ok]
          /\ UNCHANGED notifications
  /\ UNCHANGED <<cycles, now, capAuth, lifeVars, restVars>>

\* the DELETE request of deletePost settles: 'Post Deleted', or 'Delete Error'
\* from the catch of deletePost; publishPost then goes on to its notification
DeleteSettle(s) ==
  LET k == Current(s) IN
  /\ k # 0
  /\ scans[s].flows[k].st = "deleting"
  /\ \/ \E net \in {"reject", "nonok"} :
          Published(s, k, [scans[s].flows[k] EXCEPT !.deleteFailed = TRUE, !.errNotified = TRUE],
                    addNotification(notifications, "error", "Delete Error", 0))
     \/ Published(s, k, scans[s].flows[k],
                  addNotification(notifications, "post_scheduled", "Post Deleted", 0))
  /\ UNCHANGED <<posts, cycles, now, capAuth, lifeVars, restVars>>

----------------------------------------------------------------------------
(* Initial states of the scheduled-post publisher *)

\* status and scheduledAt of the loaded posts: a draft with a past time, and
\* scheduled posts without a time, with a time already reached, with a later one
PostKinds ==
  {<<"draft", 1>>, <<"scheduled", NoSchedule>>, <<"scheduled", 1>>, <<"scheduled", MaxTime>>}

InitSched ==
  /\ \E kind \in [PostIds -> PostKinds] :
       posts = [p \in PostIds |-> NewPost(p, kind[p][1], kind[p][2], FALSE, NoOperation, "")]
  /\ cycles = <<>>
  /\ notifications = EmptyBag
  /\ now = 1
  /\ capAuth \in BOOLEAN
  /\ scans = <<>>
  /\ SteadyLife

NextSched ==
  \/ SchedTick
  \/ \E s \in 1..Len(scans) : PublishSettle(s)
  \/ \E s \in 1..Len(scans) : ArchiveSettle(s)
  \/ \E s \in 1..Len(scans) : DeleteSettle(s)

\* the scheduled-post publisher alone
SpecSched == InitSched /\ [][NextSched]_vars

----------------------------------------------------------------------------
(* AppContent lifecycle: auth state, load-data effect, interval effect *)

Workspaces == {1, 2}

\* the posts GET /api/posts?workspace_id=w answers with: workspace w holds
\* the post with id w, a draft whose video is being generated
dbPosts(w) == <<NewPost(w, "draft", NoSchedule, TRUE, PendingOperation(w), "")>>

\* variant: the cleanup clears the scheduled-post interval only
clearIntervalsScheduleOnly(b) == b (-) SetToBag({"schedule"})

\* the cleanup of the interval effect: clearInterval of both handles
clearIntervals(b) == b (-) BothIntervals

\* the body of the interval effect for the rendered user u and workspace w
IntervalEffect(b, u, w) ==
  IF u = NoUser \/ w = NoWorkspace \/ ~dataLoadedRef THEN b ELSE b (+) BothIntervals

\* the body of the load-data effect for the rendered user u and workspace w
LoadEffect(ls, u, w) ==
  IF u = NoUser \/ w = NoWorkspace THEN ls
  ELSE IF dataLoadedRef /\ currentWorkspaceRef = w THEN ls
  ELSE ls (+) SetToBag({w})

\* auth state changes and timer firings the component has seen
events == authEvents + Len(cycles) + Len(scans)

\* AppContent renders with a changed user or workspaceId: both effects with
\* deps [user, workspaceId] run, the cleanup of the interval effect first
Rerender(u, w) ==
  /\ mounted
  /\ events < MaxEvents
  /\ authEvents' = authEvents + 1
  /\ user' = u
  /\ workspaceId' = w
  /\ loads' = LoadEffect(loads, u, w)
  /\ timers' = IntervalEffect(clearIntervals(timers), u, w)
  /\ UNCHANGED <<posts, cycles, notifications, schedVars,
                 mounted, dataLoadedRef, currentWorkspaceRef, loadedFor, restVars>>

\* setUser(session.user): a session event delivers a user object
SetUser == Rerender(1, workspaceId)

\* setWorkspaceId(...): the profile fetch delivers a workspace, or none
SetWorkspaceId(w) == w # workspaceId /\ Rerender(user, w)

\* SIGNED_OUT: setUser(null), setWorkspaceId(null)
SignedOut == (user # NoUser \/ workspaceId # NoWorkspace) /\ Rerender(NoUser, NoWorkspace)

\* AppContent unmounts: the cleanup of the interval effect runs
Unmount ==
  /\ mounted
  /\ mounted' = FALSE
  /\ timers' = clearIntervals(timers)
  /\ UNCHANGED <<posts, cycles, notifications, schedVars, user, workspaceId,
                 dataLoadedRef, currentWorkspaceRef, loads, loadedFor, authEvents, restVars>>

\* loadData for workspace w ends: the posts are stored and the refs marked,
\* or the catch block notifies 'Load Error'
LoadSettle(w) ==
  /\ CopiesIn(w, loads) > 0
  /\ loads' = loads (-) SetToBag({w})
  /\ \/ /\ posts' = setPosts(dbPosts(w))
        /\ loadedFor' = IF mounted THEN w ELSE loadedFor
        /\ dataLoadedRef' = TRUE
        /\ currentWorkspaceRef' = w
        /\ UNCHANGED notifications
     \/ /\ \E failure \in {"rejected", "posts not ok", "credentials not ok"} :
             notifications' = addNotification(notifications, "error", "Load Error", 0)
        /\ UNCHANGED <<posts, loadedFor, dataLoadedRef, currentWorkspaceRef>>
  /\ UNCHANGED <<cycles, schedVars, user, workspaceId, mounted, timers, authEvents, restVars>>

InitLife ==
  /\ posts = <<>>
  /\ cycles = <<>>
  /\ notifications = EmptyBag
  /\ now = 1
  /\ capAuth = FALSE
  /\ scans = <<>>
  /\ user = NoUser
  /\ workspaceId = NoWorkspace
  /\ mounted = TRUE
  /\ dataLoadedRef = FALSE
  /\ currentWorkspaceRef = NoWorkspace
  /\ timers = EmptyBag
  /\ loads = EmptyBag
  /\ loadedFor = NoWorkspace
  /\ authEvents = 0
  /\ FreshAuth
  /\ IdleServer
  /\ IdleMigration

NextLife ==
  \/ SetUser
  \/ \E w \in Workspaces \cup {NoWorkspace} : SetWorkspaceId(w)
  \/ SignedOut
  \/ Unmount
  \/ \E w \in Workspaces : LoadSettle(w)
  \/ events < MaxEvents /\ PollTick
  \/ \E c \in 1..Len(cycles) : \E i \in 1..Len(cycles[c].reqs) : StatusSettle(c, i)
  \/ \E c \in 1..Len(cycles) : Join(c)
  \/ \E c \in 1..Len(cycles) : \E i \in 1..Len(cycles[c].reqs) : DownloadSettle(c, i)
  \/ events < MaxEvents /\ SchedTickAt(now)

\* the component from mount to unmount, with both timers
SpecLife == InitLife /\ [][NextLife]_vars

\* every request the component has sent is answered in the end, and the event
\* loop then runs its continuation; auth changes, timer firings and the
\* unmount are up to the environment
LifeSettles ==
  \/ \E w \in Workspaces : LoadSettle(w)
  \/ \E c \in 1..Len(cycles) : \E i \in 1..Len(cycles[c].reqs) : StatusSettle(c, i)
  \/ \E c \in 1..Len(cycles) : Join(c)
  \/ \E c \in 1..Len(cycles) : \E i \in 1..Len(cycles[c].reqs) : DownloadSettle(c, i)

SpecLifeFair == SpecLife /\ WF_vars(LifeSettles)

----------------------------------------------------------------------------
(* AuthProvider: initializeAuth, onAuthStateChange, fetchUserProfile *)

\* const maxRetries = 3
maxRetries == 3

\* the profile row of user u: its workspace and role
Profile(u) == [workspace_id |-> u, role |-> IF u = 1 THEN "admin" ELSE "editor"]

\* the promise of one fetchUserProfile call that started a fetch: st is the
\* await it is parked at, awaits the promise a retry call handed back
NewFetch(u, n) ==
  [userId |-> u, retryCount |-> n, st |-> "rpc", awaits |-> 0, result |-> "pending"]

\* profile requests on the wire
InFlightFetches(fs) == {k \in 1..Len(fs) : fs[k].st \in {"rpc", "select"}}

\* fetchUserProfile(u, n) up to its return: the cached promise, undefined
\* (ret 0) when a fetch is in progress, or a new promise whose RPC is sent
fetchUserProfile(fs, cache, flag, u, n) ==
  IF cache[u] # 0
    THEN [fetches |-> fs, cache |-> cache, flag |-> flag, ret |-> cache[u]]
  ELSE IF flag
    THEN [fetches |-> fs, cache |-> cache, flag |-> flag, ret |-> 0]
  ELSE [fetches |-> Append(fs, NewFetch(u, n)),
        cache |-> [cache EXCEPT ![u] = Len(fs) + 1], flag |-> TRUE, ret |-> Len(fs) + 1]

\* the promises that settle with promise k: k and, transitively, the retry
\* chains awaiting it
RECURSIVE Chain(_, _)
Chain(fs, S) ==
  LET T == S \cup {j \in 1..Len(fs) : fs[j].st = "awaiting" /\ fs[j].awaits \in S}
  IN IF T = S THEN S ELSE Chain(fs, T)

\* the promises of Chain return r (null for undefined: ?? null)
Resolved(fs, k, r) ==
  [j \in 1..Len(fs) |->
     IF j \in Chain(fs, {k}) THEN [fs[j] EXCEPT !.st = "done", !.awaits = 0, !.result = r]
     ELSE fs[j]]

\* an awaited fetchUserProfile returned at once: undefined, or a settled promise
Returned(fs, ret) == ret = 0 \/ fs[ret].st = "done"

\* initializeAuth after its await fetchUserProfile: initialLoadComplete, setLoading(false)
InitContinues(fs) ==
  /\ initializeAuth.pc = "profile"
  /\ Returned(fs, initializeAuth.awaits)

AfterAwait(fs) ==
  IF InitContinues(fs)
    THEN /\ initializeAuth' = [pc |-> "done", awaits |-> 0]
         /\ initialLoadComplete' = TRUE
         /\ loading' = FALSE
  ELSE UNCHANGED <<initializeAuth, initialLoadComplete, loading>>

\* the promises parked at the one-second timer of a retry
Sleeping(fs) == {j \in 1..Len(fs) : fs[j].st = "sleep"}

\* setTimeout(..., 5 * 60 * 1000) for the cache entry of user u: the retry
\* timers (1000 ms) that are pending when it is set fire before it does
NewEviction(fs, u) == [userId |-> u, after |-> Sleeping(fs)]

\* promise k returns r: every promise of its chain runs its finally block
\* (fetchInProgressRef.current = false, setTimeout of the cache eviction);
\* the timers of one chain are set in the same turn and fire together, so
\* they are kept as one
Settle(fs, k, r) ==
  /\ fetches' = Resolved(fs, k, r)
  /\ fetchInProgressRef' = FALSE
  /\ evictions' = evictions (+) SetToBag({NewEviction(Resolved(fs, k, r), fs[k].userId)})
  /\ AfterAwait(Resolved(fs, k, r))

\* the values not touched by the profile fetch
appVars == <<posts, cycles, notifications, schedVars, mounted, dataLoadedRef,
             currentWorkspaceRef, timers, loads, loadedFor, routeVars, migVars>>

\* a complete profile arrived: setWorkspaceId, setUserRole, return it
ProfileLoaded(k) ==
  /\ workspaceId' = Profile(fetches[k].userId).workspace_id
  /\ userRole' = Profile(fetches[k].userId).role
  /\ Settle(fetches, k, "profile")
  /\ UNCHANGED profileCacheRef

\* no usable profile: retry after one second, or give up with null
AttemptFailed(k) ==
  IF fetches[k].retryCount < maxRetries
    THEN /\ fetchInProgressRef' = FALSE
         /\ profileCacheRef' = [profileCacheRef EXCEPT ![fetches[k].userId] = 0]
         /\ fetches' = [fetches EXCEPT ![k].st = "sleep"]
         /\ UNCHANGED <<workspaceId, userRole, evictions, initializeAuth,
                        initialLoadComplete, loading>>
  ELSE /\ workspaceId' = NoWorkspace
       /\ userRole' = NoRole
       /\ Settle(fetches, k, "null")
       /\ UNCHANGED profileCacheRef

\* await supabase.rpc('get_my_profile') settles
RpcSettle(k) ==
  /\ fetches[k].st = "rpc"
  /\ \/ ProfileLoaded(k)
     \/ /\ \E answer \in {"rpc error", "incomplete"} :
             fetches' = [fetches EXCEPT ![k].st = "select"]
        /\ UNCHANGED <<workspaceId, userRole, fetchInProgressRef, profileCacheRef,
                       evictions, initializeAuth, initialLoadComplete, loading>>
  /\ UNCHANGED <<appVars, user, authEvents, session, lastCall>>

\* await supabase.from('users').select(...).maybeSingle() settles
SelectSettle(k) ==
  /\ fetches[k].st = "select"
  /\ \/ ProfileLoaded(k)
     \/ \E answer \in {"error", "no data", "incomplete"} : AttemptFailed(k)
  /\ UNCHANGED <<appVars, user, authEvents, session, lastCall>>

\* the one-second timer of a retry fires: await fetchUserProfile(userId, retryCount + 1)
RetryWake(k) ==
  /\ fetches[k].st = "sleep"
  /\ LET r == fetchUserProfile(fetches, profileCacheRef, fetchInProgressRef,
                               fetches[k].userId, fetches[k].retryCount + 1)
     IN /\ Len(r.fetches) <= MaxFetches
        /\ profileCacheRef' = r.cache
        /\ IF Returned(r.fetches, r.ret)
             THEN Settle(r.fetches, k, IF r.ret = 0 THEN "null" ELSE r.fetches[r.ret].result)
           ELSE /\ fetches' = [r.fetches EXCEPT ![k].st = "awaiting", ![k].awaits = r.ret]
                /\ fetchInProgressRef' = r.flag
                /\ UNCHANGED <<evictions, initializeAuth, initialLoadComplete, loading>>
  /\ UNCHANGED <<appVars, user, workspaceId, userRole, authEvents, session, lastCall>>

\* setTimeout(() => profileCacheRef.current.delete(userId), 5 * 60 * 1000) fires
Evict(t) ==
  /\ t.after \cap Sleeping(fetches) = {}
  /\ evictions' = evictions (-) SetToBag({t})
  /\ profileCacheRef' = [profileCacheRef EXCEPT ![t.userId] = 0]
  /\ UNCHANGED <<appVars, user, workspaceId, authEvents, session, loading, userRole,
                 fetchInProgressRef, initialLoadComplete, fetches, initializeAuth, lastCall>>

\* a caller that awaits nothing after it: setSession, setUser, fetchUserProfile
SignIn(u) ==
  LET r == fetchUserProfile(fetches, profileCacheRef, fetchInProgressRef, u, 0)
  IN /\ Len(r.fetches) <= MaxFetches
     /\ session' = u
     /\ user' = u
     /\ fetches' = r.fetches
     /\ profileCacheRef' = r.cache
     /\ fetchInProgressRef' = r.flag

\* one more auth event or context call is delivered
Called(name, u, processed) ==
  /\ authEvents < MaxCalls
  /\ authEvents' = authEvents + 1
  /\ lastCall' = [name |-> name, user |-> u, processed |-> processed]

SignInEvents == {"SIGNED_IN", "TOKEN_REFRESHED", "USER_UPDATED"}

\* the branch of the listener an event name selects
Branch(ev) == IF ev \in SignInEvents THEN "SIGNED_IN" ELSE ev

\* await supabase.auth.getSession() of initializeAuth settles
GetSessionSettle ==
  /\ initializeAuth.pc = "getSession"
  /\ \/ /\ ~mounted
        /\ initializeAuth' = [pc |-> "done", awaits |-> 0]
        /\ UNCHANGED <<session, user, loading, initialLoadComplete, fetches,
                       profileCacheRef, fetchInProgressRef>>
     \/ /\ mounted
        /\ \E failure \in {"error", "throws"} :
             /\ loading' = FALSE
             /\ initializeAuth' = [pc |-> "done", awaits |-> 0]
        /\ UNCHANGED <<session, user, initialLoadComplete, fetches,
                       profileCacheRef, fetchInProgressRef>>
     \/ /\ mounted
        /\ session' = NoUser
        /\ user' = NoUser
        /\ initialLoadComplete' = TRUE
        /\ loading' = FALSE
        /\ initializeAuth' = [pc |-> "done", awaits |-> 0]
        /\ UNCHANGED <<fetches, profileCacheRef, fetchInProgressRef>>
     \/ /\ mounted
        /\ \E u \in Users :
             /\ SignIn(u)
             /\ LET r == fetchUserProfile(fetches, profileCacheRef, fetchInProgressRef, u, 0)
                IN IF Returned(r.fetches, r.ret)
                     THEN /\ initializeAuth' = [pc |-> "done", awaits |-> 0]
                          /\ initialLoadComplete' = TRUE
                          /\ loading' = FALSE
                   ELSE /\ initializeAuth' = [pc |-> "profile", awaits |-> r.ret]
                        /\ UNCHANGED <<initialLoadComplete, loading>>
  /\ UNCHANGED <<appVars, workspaceId, userRole, authEvents, evictions, lastCall>>

\* the onAuthStateChange listener receives event ev with the session of user u
AuthEvent(ev, u) ==
  /\ IF ~initialLoadComplete \/ ~mounted
       THEN /\ Called(Branch(ev), u, FALSE)
            /\ UNCHANGED <<session, user, workspaceId, userRole, fetches,
                           profileCacheRef, fetchInProgressRef>>
     ELSE IF ev \in SignInEvents
       THEN /\ u # NoUser
            /\ Called(Branch(ev), u, TRUE)
            /\ SignIn(u)
            /\ UNCHANGED <<workspaceId, userRole>>
     ELSE IF ev = "SIGNED_OUT"
       THEN /\ Called(ev, u, TRUE)
            /\ session' = NoUser
            /\ user' = NoUser
            /\ workspaceId' = NoWorkspace
            /\ userRole' = NoRole
            /\ UNCHANGED <<fetches, profileCacheRef, fetchInProgressRef>>
     ELSE /\ Called(ev, u, FALSE)
          /\ UNCHANGED <<session, user, workspaceId, userRole, fetches,
                         profileCacheRef, fetchInProgressRef>>
  /\ UNCHANGED <<appVars, loading, initialLoadComplete, evictions, initializeAuth>>

\* refreshSession(): getSession answers with the session of user u, with no
\* session, or throws
RefreshSession ==
  /\ \/ \E u \in Users :
          /\ Called("refreshSession", u, TRUE)
          /\ SignIn(u)
     \/ /\ Called("refreshSession", NoUser, TRUE)
        /\ session' = NoUser
        /\ user' = NoUser
        /\ UNCHANGED <<fetches, profileCacheRef, fetchInProgressRef>>
     \/ /\ Called("refreshSession", NoUser, FALSE)
        /\ UNCHANGED <<session, user, fetches, profileCacheRef, fetchInProgressRef>>
  /\ UNCHANGED <<appVars, workspaceId, userRole, loading, initialLoadComplete,
                 evictions, initializeAuth>>

\* signOut(): after supabase.auth.signOut() the workspace and role are cleared,
\* unless the call throws
SignOut ==
  /\ \/ /\ Called("signOut", NoUser, TRUE)
        /\ workspaceId' = NoWorkspace
        /\ userRole' = NoRole
     \/ /\ Called("signOut", NoUser, FALSE)
        /\ UNCHANGED <<workspaceId, userRole>>
  /\ UNCHANGED <<appVars, user, session, loading, initialLoadComplete, fetches,
                 profileCacheRef, fetchInProgressRef, evictions, initializeAuth>>

InitAuth ==
  /\ posts = <<>>
  /\ cycles = <<>>
  /\ notifications = EmptyBag
  /\ now = 1
  /\ capAuth = FALSE
  /\ scans = <<>>
  /\ user = NoUser
  /\ workspaceId = NoWorkspace
  /\ mounted = TRUE
  /\ dataLoadedRef = FALSE
  /\ currentWorkspaceRef = NoWorkspace
  /\ timers = EmptyBag
  /\ loads = EmptyBag
  /\ loadedFor = NoWorkspace
  /\ authEvents = 0
  /\ FreshAuth
  /\ IdleServer
  /\ IdleMigration

NextAuth ==
  \/ GetSessionSettle
  \/ \E u \in Users : \E ev \in SignInEvents : AuthEvent(ev, u)
  \/ \E ev \in {"SIGNED_OUT", "INITIAL_SESSION"} : AuthEvent(ev, NoUser)
  \/ RefreshSession
  \/ SignOut
  \/ \E k \in 1..Len(fetches) : RpcSettle(k)
  \/ \E k \in 1..Len(fetches) : SelectSettle(k)
  \/ \E k \in 1..Len(fetches) : RetryWake(k)
  \/ \E t \in BagToSet(evictions) : Evict(t)

\* the client side as a whole
clientVars == <<posts, cycles, notifications, schedVars, lifeVars, authVars>>

\* the AuthProvider alone
SpecAuth == InitAuth /\ [][NextAuth]_vars

----------------------------------------------------------------------------
(* API routes: /api/posts, /api/posts/[id], /api/library, /api/library/[id], *)
(* /api/storage/upload                                                      *)

\* searchParams.get('workspace_id') === null, a body without the field
Missing == 0

\* supabase.auth.getUser(): a user, no user, or an auth error
AuthOutcomes == {"user", "none", "error"}

\* what a handler did and answered: the queries it ran (reads), the inserts,
\* updates, deletes and uploads it issued (writes), the tables after it
Answer(status, reads, writes, tables) ==
  [status |-> status, reads |-> reads, writes |-> writes, db |-> tables]

\* if (authError || !user) return 401
Unauthenticated(req) == req.auth # "user"
Refused(req, tables) == Answer(401, 0, 0, tables)

\* uploadBase64Image for a base64 generatedImage: one storage write, whose
\* failure is caught by the handler
Uploads(req) == IF req.base64 THEN 1 ELSE 0
AfterUploads(req, out, tables) ==
  IF req.base64 /\ out.upload THEN [tables EXCEPT !.files = @ + 1] ELSE tables

\* GET /api/posts
PostsGET(req, out, tables) ==
  IF Unauthenticated(req) THEN Refused(req, tables)
  ELSE IF req.workspaceId = Missing THEN Answer(400, 0, 0, tables)
  ELSE IF ~out.query THEN Answer(500, 1, 0, tables)
  ELSE Answer(200, 1, 0, tables)

\* POST /api/posts: insert, then the activity log
PostsPOST(req, out, tables) ==
  IF Unauthenticated(req) THEN Refused(req, tables)
  ELSE IF ~req.json THEN Answer(500, 0, 0, tables)
  ELSE IF req.post = Missing \/ req.workspaceId = Missing THEN Answer(400, 0, 0, tables)
  ELSE LET up == AfterUploads(req, out, tables) IN
       IF ~out.query \/ up.posts[req.post] # Missing
         THEN Answer(500, 0, Uploads(req) + 1, up)
       ELSE Answer(200, 0, Uploads(req) + 2,
                   [up EXCEPT !.posts[req.post] = req.workspaceId, !.logs = @ + 1])

\* PUT /api/posts/[id]: update ... eq id, eq workspace_id ... single()
PostsPUT(req, out, tables) ==
  IF Unauthenticated(req) THEN Refused(req, tables)
  ELSE IF ~req.json THEN Answer(500, 0, 0, tables)
  ELSE IF req.post = Missing \/ req.workspaceId = Missing THEN Answer(400, 0, 0, tables)
  ELSE LET up == AfterUploads(req, out, tables) IN
       IF ~out.query \/ up.posts[req.id] # req.workspaceId
         THEN Answer(500, 0, Uploads(req) + 1, up)
       ELSE Answer(200, 0, Uploads(req) + 2, [up EXCEPT !.logs = @ + 1])

\* DELETE /api/posts/[id]
PostsDELETE(req, out, tables) ==
  IF Unauthenticated(req) THEN Refused(req, tables)
  ELSE IF req.workspaceId = Missing THEN Answer(400, 0, 0, tables)
  ELSE IF ~out.query THEN Answer(500, 0, 1, tables)
  ELSE Answer(200, 0, 2,
              [tables EXCEPT !.posts[req.id] = IF @ = req.workspaceId THEN Missing ELSE @,
                             !.logs = @ + 1])

\* GET /api/library: the count query (its error is not looked at), the page
LibraryGET(req, out, tables) ==
  IF Unauthenticated(req) THEN Refused(req, tables)
  ELSE IF req.workspaceId = Missing THEN Answer(400, 0, 0, tables)
  ELSE IF ~out.query THEN Answer(500, 2, 0, tables)
  ELSE Answer(200, 2, 0, tables)

\* POST /api/library
LibraryPOST(req, out, tables) ==
  IF Unauthenticated(req) THEN Refused(req, tables)
  ELSE IF ~req.json THEN Answer(500, 0, 0, tables)
  ELSE IF req.post = Missing \/ ~req.platformResults \/ req.workspaceId = Missing
    THEN Answer(400, 0, 0, tables)
  ELSE LET up == AfterUploads(req, out, tables) IN
       IF ~out.query THEN Answer(500, 0, Uploads(req) + 1, up)
       ELSE Answer(200, 0, Uploads(req) + 1, [up EXCEPT !.library[req.workspaceId] = @ + 1])

\* variant: the library delete does not ask for the authenticated user
LibraryDELETENoAuth(req, out, tables) ==
  IF req.workspaceId = Missing THEN Answer(400, 0, 0, tables)
  ELSE IF ~out.query THEN Answer(500, 0, 1, tables)
  ELSE Answer(200, 0, 1,
              [tables EXCEPT !.library[req.workspaceId] = IF @ > 0 THEN @ - 1 ELSE @])

\* DELETE /api/library/[id]: the id names an item of the workspace, if it has one
LibraryDELETE(req, out, tables) ==
  IF Unauthenticated(req) THEN Refused(req, tables)
  ELSE IF req.workspaceId = Missing THEN Answer(400, 0, 0, tables)
  ELSE IF ~out.query THEN Answer(500, 0, 1, tables)
  ELSE Answer(200, 0, 1,
              [tables EXCEPT !.library[req.workspaceId] = IF @ > 0 THEN @ - 1 ELSE @])

\* POST /api/storage/upload
UploadPOST(req, out, tables) ==
  IF Unauthenticated(req) THEN Refused(req, tables)
  ELSE IF ~req.json THEN Answer(500, 0, 0, tables)
  ELSE IF ~req.base64Data \/ ~req.fileName THEN Answer(400, 0, 0, tables)
  ELSE IF ~out.upload THEN Answer(500, 0, 1, tables)
  ELSE Answer(200, 0, 1, [tables EXCEPT !.files = @ + 1])

Routes ==
  {"GET /posts", "POST /posts", "PUT /posts/id", "DELETE /posts/id",
   "GET /library", "POST /library", "DELETE /library/id", "POST /storage/upload"}

\* the parts of a request its route reads; the others are left at a fixed value
Reads(route) ==
  CASE route \in {"GET /posts", "GET /library"} -> {"workspaceId"}
    [] route = "DELETE /posts/id" -> {"workspaceId", "id"}
    [] route = "DELETE /library/id" -> {"workspaceId"}
    [] route = "POST /posts" -> {"workspaceId", "json", "post", "base64"}
    [] route = "PUT /posts/id" -> {"workspaceId", "json", "post", "id", "base64"}
    [] route = "POST /library" -> {"workspaceId", "json", "post", "platformResults", "base64"}
    [] route = "POST /storage/upload" -> {"json", "base64Data", "fileName"}

Unread == [workspaceId |-> Missing, json |-> TRUE, post |-> Missing, id |-> 1,
           platformResults |-> FALSE, base64 |-> FALSE, base64Data |-> FALSE,
           fileName |-> FALSE]

Field(route, field, values) ==
  IF field \in Reads(route) THEN values ELSE {Unread[field]}

\* the fields that travel in the JSON body: nothing of them is there when
\* request.json() throws
Body(route) ==
  IF "json" \in Reads(route) THEN Reads(route) \ {"json", "id"} ELSE {}

\* the requests a client can send to a route: who is signed in, the
\* workspace_id parameter or field, and the fields of the body; only
\* POST /api/posts stores the id of the post it is given
Requests(route) ==
  {req \in [route : {route}, auth : AuthOutcomes,
            workspaceId : Field(route, "workspaceId", {Missing} \cup Workspaces),
            json : Field(route, "json", BOOLEAN),
            post : Field(route, "post",
                         IF route = "POST /posts" THEN {Missing} \cup Rows ELSE {Missing, 1}),
            id : Field(route, "id", Rows),
            platformResults : Field(route, "platformResults", BOOLEAN),
            base64 : Field(route, "base64", BOOLEAN),
            base64Data : Field(route, "base64Data", BOOLEAN),
            fileName : Field(route, "fileName", BOOLEAN)] :
     ~req.json => \A field \in Body(route) : req[field] = Unread[field]}

\* the outcomes of the database call and of the storage upload of a handler;
\* a request that is refused makes neither
Outcomes(req) ==
  IF Unauthenticated(req) THEN {[query |-> TRUE, upload |-> TRUE]}
  ELSE [query : BOOLEAN, upload : BOOLEAN]

Dispatch(req, out, tables) ==
  CASE req.route = "GET /posts" -> PostsGET(req, out, tables)
    [] req.route = "POST /posts" -> PostsPOST(req, out, tables)
    [] req.route = "PUT /posts/id" -> PostsPUT(req, out, tables)
    [] req.route = "DELETE /posts/id" -> PostsDELETE(req, out, tables)
    [] req.route = "GET /library" -> LibraryGET(req, out, tables)
    [] req.route = "POST /library" -> LibraryPOST(req, out, tables)
    [] req.route = "DELETE /library/id" -> LibraryDELETE(req, out, tables)
    [] req.route = "POST /storage/upload" -> UploadPOST(req, out, tables)

\* the server handles one request of the route
Handle(route) ==
  /\ handled < MaxHandled
  /\ \E req \in Requests(route) : \E out \in Outcomes(req) :
       LET ans == Dispatch(req, out, db) IN
       /\ db' = ans.db
       /\ response' = [request |-> req, status |-> ans.status,
                       reads |-> ans.reads, writes |-> ans.writes]
  /\ handled' = handled + 1
  /\ UNCHANGED <<clientVars, migVars>>

NextRoutes ==
  \/ Handle("GET /posts")
  \/ Handle("POST /posts")
  \/ Handle("PUT /posts/id")
  \/ Handle("DELETE /posts/id")
  \/ Handle("GET /library")
  \/ Handle("POST /library")
  \/ Handle("DELETE /library/id")
  \/ Handle("POST /storage/upload")

InitRoutes ==
  /\ posts = <<>>
  /\ cycles = <<>>
  /\ notifications = EmptyBag
  /\ now = 1
  /\ capAuth = FALSE
  /\ scans = <<>>
  /\ user = NoUser
  /\ workspaceId = NoWorkspace
  /\ mounted = TRUE
  /\ dataLoadedRef = FALSE
  /\ currentWorkspaceRef = NoWorkspace
  /\ timers = EmptyBag
  /\ loads = EmptyBag
  /\ loadedFor = NoWorkspace
  /\ authEvents = 0
  /\ FreshAuth
  /\ IdleServer
  /\ IdleMigration

\* the route handlers alone
SpecRoutes == InitRoutes /\ [][NextRoutes]_vars

----------------------------------------------------------------------------
(* MigrationService: needsMigration, migrateAllData, migratePosts,          *)
(* migrateCredentials                                                       *)

\* the keys of the PlatformCredentials object, in the order of Object.entries
Platforms == <<"twitter", "linkedin">>

\* localStorage.getItem(key): null, or the stored list
Stored(items) == [present |-> TRUE, items |-> items]
NotStored == [present |-> FALSE, items |-> <<>>]

RECURSIVE Lists(_, _)
Lists(values, n) ==
  IF n = 0 THEN {<<>>}
  ELSE LET shorter == Lists(values, n - 1) IN
       shorter \cup {Append(l, v) : l \in {x \in shorter : Len(x) = n - 1}, v \in values}

needsMigration(ls) ==
  /\ ls.socialMediaPosts.present \/ ls.social_media_credentials.present
  /\ ~ls.migration_completed

\* the end of migrateAllData: setItem('migration_completed', 'true'), return
Return(m) == [m EXCEPT !.pc = "idle", !.i = 0]

\* migrateCredentials from entry j on: the next await, or the end
CredentialsFrom(ls, m, j) ==
  IF ls.social_media_credentials.present /\ j <= Len(ls.social_media_credentials.items)
    THEN [m EXCEPT !.pc = "getConnectionStatus", !.i = j]
  ELSE Return(m)

\* migratePosts from post i on: the next await, or on to migrateCredentials
PostsFrom(ls, m, i) ==
  IF ls.socialMediaPosts.present /\ i <= Len(ls.socialMediaPosts.items)
    THEN [m EXCEPT !.pc = "getPostById", !.i = i]
  ELSE CredentialsFrom(ls, m, 1)

\* migrateAllData runs on to m; having reached its end it has marked the
\* migration as completed
Continue(m) ==
  /\ migration' = m
  /\ localStorage' = IF m.pc = "idle"
                       THEN [localStorage EXCEPT !.migration_completed = TRUE]
                     ELSE localStorage

\* MigrationService.migrateAllData(userId, workspaceId) is called
MigrateAllData(w) ==
  /\ migration.pc = "idle"
  /\ migration.runs < MaxRuns
  /\ Continue(PostsFrom(localStorage,
                        [migration EXCEPT !.workspaceId = w, !.postsCount = 0,
                                          !.credentialsCount = 0, !.errors = 0,
                                          !.runs = @ + 1], 1))
  /\ UNCHANGED <<clientVars, routeVars>>

LocalPost == localStorage.socialMediaPosts.items[migration.i]
LocalPlatform == localStorage.social_media_credentials.items[migration.i]

\* await PostService.getPostById(post.id, workspaceId): the row, null, or a
\* thrown error that the catch of the iteration records
GetPostByIdSettle ==
  /\ migration.pc = "getPostById"
  /\ \E thrown \in BOOLEAN :
       IF thrown
         THEN Continue(PostsFrom(localStorage, [migration EXCEPT !.errors = @ + 1],
                                 migration.i + 1))
       ELSE IF db.posts[LocalPost] = migration.workspaceId
         THEN Continue(PostsFrom(localStorage, migration, migration.i + 1))
       ELSE Continue([migration EXCEPT !.pc = "createPost"])
  /\ UNCHANGED <<clientVars, routeVars>>

\* await PostService.createPost(post, userId, workspaceId); an id taken by a
\* row of another workspace is refused
CreatePostSettle ==
  /\ migration.pc = "createPost"
  /\ \E thrown \in BOOLEAN :
       /\ ~thrown => db.posts[LocalPost] = Missing
       /\ IF thrown
            THEN /\ Continue(PostsFrom(localStorage, [migration EXCEPT !.errors = @ + 1],
                                       migration.i + 1))
                 /\ db' = db
          ELSE /\ Continue(PostsFrom(localStorage, [migration EXCEPT !.postsCount = @ + 1],
                                     migration.i + 1))
               /\ db' = [db EXCEPT !.posts[LocalPost] = migration.workspaceId]
  /\ UNCHANGED <<clientVars, response, handled>>

\* await CredentialService.getConnectionStatus(workspaceId)
GetConnectionStatusSettle ==
  /\ migration.pc = "getConnectionStatus"
  /\ \E thrown \in BOOLEAN :
       IF thrown
         THEN Continue(CredentialsFrom(localStorage, [migration EXCEPT !.errors = @ + 1],
                                       migration.i + 1))
       ELSE IF LocalPlatform \in db.credentials[migration.workspaceId]
         THEN Continue(CredentialsFrom(localStorage, migration, migration.i + 1))
       ELSE Continue([migration EXCEPT !.pc = "savePlatformCredentials"])
  /\ UNCHANGED <<clientVars, routeVars>>

\* await CredentialService.savePlatformCredentials(...)
SavePlatformCredentialsSettle ==
  /\ migration.pc = "savePlatformCredentials"
  /\ \E thrown \in BOOLEAN :
       IF thrown
         THEN /\ Continue(CredentialsFrom(localStorage, [migration EXCEPT !.errors = @ + 1],
                                          migration.i + 1))
              /\ db' = db
       ELSE /\ Continue(CredentialsFrom(localStorage,
                                        [migration EXCEPT !.credentialsCount = @ + 1],
                                        migration.i + 1))
            /\ db' = [db EXCEPT !.credentials[migration.workspaceId] = @ \cup {LocalPlatform}]
  /\ UNCHANGED <<clientVars, response, handled>>

\* a browser with or without stored posts and credentials, a database with
\* or without rows of either workspace
InitMigration ==
  /\ posts = <<>>
  /\ cycles = <<>>
  /\ notifications = EmptyBag
  /\ now = 1
  /\ capAuth = FALSE
  /\ scans = <<>>
  /\ user = NoUser
  /\ workspaceId = NoWorkspace
  /\ mounted = TRUE
  /\ dataLoadedRef = FALSE
  /\ currentWorkspaceRef = NoWorkspace
  /\ timers = EmptyBag
  /\ loads = EmptyBag
  /\ loadedFor = NoWorkspace
  /\ authEvents = 0
  /\ FreshAuth
  /\ response = [request |-> <<>>, status |-> 0, reads |-> 0, writes |-> 0]
  /\ handled = 0
  /\ \E rows \in [Rows -> {Missing} \cup Workspaces] :
     \E connected \in [Workspaces -> {{}, {Platforms[1]}}] :
       db = [posts |-> rows, library |-> [w \in Workspaces |-> 0], logs |-> 0,
             files |-> 0, credentials |-> connected]
  /\ \E stored \in {NotStored} \cup {Stored(l) : l \in Lists(Rows, MaxLocal)} :
     \E secrets \in {NotStored, Stored(<<>>), Stored(<<Platforms[1]>>),
                     Stored(<<Platforms[2]>>), Stored(Platforms)} :
       localStorage = [socialMediaPosts |-> stored, social_media_credentials |-> secrets,
                       migration_completed |-> FALSE]
  /\ migration = [pc |-> "idle", workspaceId |-> 0, i |-> 0, postsCount |-> 0,
                  credentialsCount |-> 0, errors |-> 0, runs |-> 0]

NextMigration ==
  \/ \E w \in Workspaces : MigrateAllData(w)
  \/ GetPostByIdSettle
  \/ CreatePostSettle
  \/ GetConnectionStatusSettle
  \/ SavePlatformCredentialsSettle

SpecMigration == InitMigration /\ [][NextMigration]_vars

----------------------------------------------------------------------------
(* Properties of the poller *)

\* the step in which the fan-in of cycle c runs its result handlers
JoinStep(c) == ~cycles[c].joined /\ cycles'[c].joined
\* the step in which the download of request i of cycle c ends
DownloadStep(c, i) == cycles[c].reqs[i].st = "fetching" /\ cycles'[c].reqs[i].st = "done"
\* the step in which a timer tick runs pollVideoStatuses
TickStep == Len(cycles') = Len(cycles) + 1

ProgressText(video) ==
  "Processing... " \o (IF video.progress = NoProgress THEN "0" ELSE ToString(video.progress)) \o "%"
FailedText(video) ==
  IF video.error = "" THEN "Failed: Video generation failed" ELSE "Failed: " \o video.error

\* what a status result with body video dictates for the post record q
DictatedByStatus(q, video) ==
  IF video.status = "failed"
    THEN [q EXCEPT !.isGeneratingVideo = FALSE, !.videoGenerationStatus = FailedText(video),
                   !.videoOperation = video]
  ELSE [q EXCEPT !.videoGenerationStatus = ProgressText(video), !.videoOperation = video]

\* what the end of a download with outcome res dictates for the post record q
DictatedByDownload(q, res) ==
  IF res = "completed"
    THEN [q EXCEPT !.generatedVideoUrl = FetchedUrl(JobId(q.id)), !.isGeneratingVideo = FALSE,
                   !.videoGenerationStatus = "Completed!",
                   !.videoOperation = CompletedBody(JobId(q.id))]
  ELSE [q EXCEPT !.isGeneratingVideo = FALSE, !.videoGenerationStatus = "Failed."]

\* a result for post q is handled by the current step
Handled(q) ==
  \E c \in 1..Len(cycles) : \E i \in 1..Len(cycles[c].reqs) :
    /\ cycles[c].reqs[i].post = q
    /\ \/ JoinStep(c) /\ cycles[c].reqs[i].st = "fulfilled"
       \/ DownloadStep(c, i)

\* C1: in a poll cycle a failure for one post (rejected or non-OK status
\* request, failed download) neither blocks nor corrupts another post: at the
\* fan-in every result is handled and the post of every fulfilled result gets
\* exactly the fields a status body of its own job dictates, a download
\* changes its own post only, and no post changes unless a result of its own
\* is handled.
C1_FailureIsolation ==
  [][ /\ \A c \in 1..Len(cycles) : JoinStep(c) =>
           \A i \in 1..Len(cycles[c].reqs) :
             LET r == cycles[c].reqs[i]
                 r2 == cycles'[c].reqs[i] IN
               /\ r2.st \in {"done", "fetching"}
               /\ r.st = "rejected" => r2.res = "rejected"
               /\ r.st = "fulfilled" => (r2.st = "fetching" \/ r2.res \in {"progress", "failed"})
               /\ (r.st = "fulfilled" /\ Exists(posts, r.post)) =>
                    LET old == PostOf(posts, r.post)
                        new == PostOf(posts', r.post) IN
                      IF r2.st = "fetching" THEN new = old
                      ELSE /\ new.videoOperation \in StatusBodies(JobId(r.post))
                           /\ (new.videoOperation.status = "failed") = (r2.res = "failed")
                           /\ new.videoOperation.status # "completed"
                           /\ new = DictatedByStatus(old, new.videoOperation)
      /\ \A c \in 1..Len(cycles) : \A i \in 1..Len(cycles[c].reqs) :
           (DownloadStep(c, i) /\ Exists(posts, cycles[c].reqs[i].post)) =>
              PostOf(posts', cycles[c].reqs[i].post) =
                DictatedByDownload(PostOf(posts, cycles[c].reqs[i].post), cycles'[c].reqs[i].res)
      /\ posts' # posts =>
           /\ Len(posts') = Len(posts)
           /\ \A k \in 1..Len(posts) : posts'[k] # posts[k] => Handled(posts[k].id)
    ]_vars

\* a joined cycle whose first request was rejected and whose second request
\* was reconciled as a progress update, now visible on its post
C1_Witness ==
  \E c \in 1..Len(cycles) :
    /\ cycles[c].joined
    /\ Len(cycles[c].reqs) >= 2
    /\ cycles[c].reqs[1].res = "rejected"
    /\ cycles[c].reqs[2].res = "progress"
    /\ Exists(posts, cycles[c].reqs[2].post)
    /\ PostOf(posts, cycles[c].reqs[2].post).videoGenerationStatus = "Processing... 40%"

CompletionNotification(p) == Notification("video_complete", "Video Generation Complete", p)

\* C2: for a post whose job is reported completed and whose download
\* succeeds, over any sequence of timer ticks, generatedVideoUrl is assigned
\* exactly once, exactly one completion notification carries the post's id,
\* and the in-progress flag is cleared.
C2_CompletedExactlyOnce ==
  \A p \in PostIds :
    /\ urlSets(p) <= 1
    /\ CopiesIn(CompletionNotification(p), notifications) <= 1
    /\ (urlSets(p) >= 1 /\ Exists(posts, p)) => ~PostOf(posts, p).isGeneratingVideo

\* C3: no head-of-line blocking: while the status request of one post of a
\* cycle is still unresolved, the results of the requests that did resolve
\* can be reconciled.
C3_NoHeadOfLineBlocking ==
  \A c \in 1..Len(cycles) :
    (~cycles[c].joined /\ \E i \in 1..Len(cycles[c].reqs) : cycles[c].reqs[i].st = "fulfilled")
      => ENABLED Join(c)

\* C4: when the provider reports completed but the download fails, the post
\* gets isGeneratingVideo = false and the text 'Failed.', is never in progress
\* again and is not selected by any later scan.
C4_FetchFailureTerminal ==
  /\ [][ \A c \in 1..Len(cycles) : \A i \in 1..Len(cycles[c].reqs) :
           (DownloadStep(c, i) /\ cycles'[c].reqs[i].res = "fetchfailed"
              /\ Exists(posts, cycles[c].reqs[i].post)) =>
             LET q == PostOf(posts', cycles[c].reqs[i].post) IN
               /\ ~q.isGeneratingVideo
               /\ q.videoGenerationStatus = "Failed."
               /\ Len(videoPosts(<<q>>)) = 0 ]_vars
  /\ [][ TickStep =>
           \A c \in 1..Len(cycles) : \A i \in 1..Len(cycles[c].reqs) :
             cycles[c].reqs[i].res = "fetchfailed" =>
               \A j \in 1..Len(cycles'[Len(cycles')].reqs) :
                 cycles'[Len(cycles')].reqs[j].post # cycles[c].reqs[i].post ]_vars
  /\ [](\A c \in 1..Len(cycles) : \A i \in 1..Len(cycles[c].reqs) :
          (cycles[c].reqs[i].res = "fetchfailed" /\ Exists(posts, cycles[c].reqs[i].post)) =>
             ~PostOf(posts, cycles[c].reqs[i].post).isGeneratingVideo)

\* a download failed in the first cycle, the post carries the failure text,
\* and a later scan ran without selecting the post
C4_Witness ==
  /\ Len(cycles) >= 2
  /\ \E i \in 1..Len(cycles[1].reqs) :
       /\ cycles[1].reqs[i].res = "fetchfailed"
       /\ Exists(posts, cycles[1].reqs[i].post)
       /\ PostOf(posts, cycles[1].reqs[i].post).videoGenerationStatus = "Failed."
       /\ ~PostOf(posts, cycles[1].reqs[i].post).isGeneratingVideo
       /\ \A j \in 1..Len(cycles[2].reqs) : cycles[2].reqs[j].post # cycles[1].reqs[i].post

\* C5: a failed status response makes no request to the fetch endpoint for
\* that job, clears isGeneratingVideo and sets the text to 'Failed: ' followed
\* by the provider's message, or by 'Video generation failed' without one.
C5_FailedNoFetch ==
  [][ \A c \in 1..Len(cycles) : JoinStep(c) =>
        \A i \in 1..Len(cycles[c].reqs) :
          LET r == cycles[c].reqs[i]
              r2 == cycles'[c].reqs[i] IN
            /\ r2.fetched =>
                 (Exists(posts, r.post) => PostOf(posts', r.post) = PostOf(posts, r.post))
            /\ r2.res = "failed" =>
                 /\ r2.st = "done"
                 /\ ~r2.fetched
                 /\ fetchCalls(r.post)' = fetchCalls(r.post)
                 /\ Exists(posts, r.post) =>
                      LET new == PostOf(posts', r.post) IN
                        /\ new.videoOperation.status = "failed"
                        /\ ~new.isGeneratingVideo
                        /\ new.videoGenerationStatus =
                             (IF new.videoOperation.error = ""
                                THEN "Failed: Video generation failed"
                                ELSE "Failed: " \o new.videoOperation.error) ]_vars

\* a failed response without a provider message was reconciled: default text
\* on the post, flag cleared, no fetch request for the job
C5_Witness ==
  \E c \in 1..Len(cycles) : \E i \in 1..Len(cycles[c].reqs) :
    /\ cycles[c].reqs[i].res = "failed"
    /\ Exists(posts, cycles[c].reqs[i].post)
    /\ PostOf(posts, cycles[c].reqs[i].post).videoGenerationStatus = "Failed: Video generation failed"
    /\ ~PostOf(posts, cycles[c].reqs[i].post).isGeneratingVideo
    /\ fetchCalls(cycles[c].reqs[i].post) = 0

\* the selection condition of a scan, as the claim words it
C8_Outstanding(p) ==
  /\ p.isGeneratingVideo = TRUE
  /\ p.videoOperation # NoOperation
  /\ p.videoOperation.status \notin {"completed", "failed"}

\* C8: one video-status scan issues exactly one status request for each post
\* with isGeneratingVideo = true and a job handle whose status is neither
\* completed nor failed, none for any other post, all of them before any
\* response is processed, and no network call at all when there is no such post.
C8_ScanRequests ==
  [][ TickStep =>
        LET new == cycles'[Len(cycles')].reqs IN
          /\ \A q \in PostIds :
               Cardinality({j \in 1..Len(new) : new[j].post = q}) =
                 (IF Exists(posts, q) /\ C8_Outstanding(PostOf(posts, q)) THEN 1 ELSE 0)
          /\ \A j \in 1..Len(new) : new[j].st = "pending" /\ ~new[j].fetched
          /\ posts' = posts
          /\ SubSeq(cycles', 1, Len(cycles)) = cycles
          /\ \A q \in PostIds : fetchCalls(q)' = fetchCalls(q) ]_vars

\* a scan with one request per post was followed by a scan that found nothing
\* outstanding and issued no request
C8_Witness ==
  /\ Len(cycles) >= 2
  /\ Len(cycles[1].reqs) = NumPosts
  /\ cycles[Len(cycles)].reqs = <<>>
  /\ \A q \in PostIds : Exists(posts, q) /\ ~PostOf(posts, q).isGeneratingVideo

\* C9: a status response that is neither completed nor failed sets the text
\* to 'Processing... P%' (P the reported progress, 0 without one), leaves
\* isGeneratingVideo as it is, and a post in progress stays selected by scans.
C9_ProgressUpdate ==
  [][ \A c \in 1..Len(cycles) : JoinStep(c) =>
        \A i \in 1..Len(cycles[c].reqs) :
          LET r == cycles[c].reqs[i] IN
            (cycles'[c].reqs[i].res = "progress" /\ Exists(posts, r.post)) =>
              LET old == PostOf(posts, r.post)
                  new == PostOf(posts', r.post) IN
                /\ new.videoOperation.status \notin {"completed", "failed"}
                /\ new.videoGenerationStatus =
                     "Processing... "
                       \o (IF new.videoOperation.progress = NoProgress THEN "0"
                           ELSE ToString(new.videoOperation.progress))
                       \o "%"
                /\ new.isGeneratingVideo = old.isGeneratingVideo
                /\ old.isGeneratingVideo =>
                     (new.isGeneratingVideo /\ Len(videoPosts(<<new>>)) = 1) ]_vars

\* a response without progress was reconciled in the first cycle, the post
\* kept its flag and the second scan selected it again
C9_Witness ==
  /\ Len(cycles) >= 2
  /\ \E i \in 1..Len(cycles[1].reqs) : \E j \in 1..Len(cycles[2].reqs) :
       /\ cycles[1].reqs[i].res = "progress"
       /\ cycles[2].reqs[j].post = cycles[1].reqs[i].post
       /\ cycles[2].reqs[j].st = "pending"
       /\ PostOf(posts, cycles[1].reqs[i].post).videoGenerationStatus = "Processing... 0%"
       /\ PostOf(posts, cycles[1].reqs[i].post).isGeneratingVideo

\* C10: a terminal failure of a video job (failed status, or failed download
\* after completed) is recorded on the post and surfaced by a notification.
C10_FailureNotified ==
  \A c \in 1..Len(cycles) : \A i \in 1..Len(cycles[c].reqs) :
    cycles[c].reqs[i].res \in {"failed", "fetchfailed"} =>
      \E n \in BagToSet(notifications) : n.type = "error"

\* the results obtained so far for post q are transient failures only
OnlyTransient(q) ==
  /\ \E ci \in RequestsFor(q) : Req(ci).res = "rejected"
  /\ \A ci \in RequestsFor(q) : Req(ci).res \in {"", "rejected"} /\ Req(ci).st # "fetching"

\* C11: a status check that fails transiently (rejected request or non-OK
\* response) leaves its post unchanged and, if it was, still in progress; the
\* cycle holds one request per post and never issues another; and a post
\* whose checks so far all failed transiently is selected by every later tick.
C11_TransientRetriedNextTick ==
  /\ [][ \A c \in 1..Len(cycles) : JoinStep(c) =>
           \A i \in 1..Len(cycles[c].reqs) :
             LET r == cycles[c].reqs[i] IN
               r.st = "rejected" =>
                 /\ cycles'[c].reqs[i].res = "rejected"
                 /\ ~cycles'[c].reqs[i].fetched
                 /\ Exists(posts, r.post) =>
                      /\ Exists(posts', r.post)
                      /\ PostOf(posts', r.post) = PostOf(posts, r.post) ]_vars
  /\ [][ \A c \in 1..Len(cycles) :
           /\ Len(cycles'[c].reqs) = Len(cycles[c].reqs)
           /\ \A i \in 1..Len(cycles[c].reqs) :
                /\ cycles'[c].reqs[i].post = cycles[c].reqs[i].post
                /\ cycles[c].reqs[i].st = "rejected" => cycles'[c].reqs[i].st \in {"rejected", "done"}
                /\ cycles[c].reqs[i].res = "rejected" => cycles'[c].reqs[i] = cycles[c].reqs[i] ]_vars
  /\ [](\A c \in 1..Len(cycles) : \A i, j \in 1..Len(cycles[c].reqs) :
          cycles[c].reqs[i].post = cycles[c].reqs[j].post => i = j)
  /\ [][ TickStep =>
           \A q \in PostIds :
             (OnlyTransient(q) /\ Exists(posts, q)) =>
                /\ IsActiveVideoPost(PostOf(posts, q))
                /\ \E j \in 1..Len(cycles'[Len(cycles')].reqs) :
                     /\ cycles'[Len(cycles')].reqs[j].post = q
                     /\ cycles'[Len(cycles')].reqs[j].st = "pending" ]_vars

\* the status check of a post was rejected in the first cycle, the post is
\* still in progress with its pending job handle, and the second tick
\* issued a new status request for it
C11_Witness ==
  /\ Len(cycles) >= 2
  /\ cycles[1].joined
  /\ \E i \in 1..Len(cycles[1].reqs) : \E j \in 1..Len(cycles[2].reqs) :
       /\ cycles[1].reqs[i].res = "rejected"
       /\ cycles[2].reqs[j].post = cycles[1].reqs[i].post
       /\ cycles[2].reqs[j].st = "pending"
       /\ Exists(posts, cycles[1].reqs[i].post)
       /\ PostOf(posts, cycles[1].reqs[i].post).isGeneratingVideo
       /\ PostOf(posts, cycles[1].reqs[i].post).videoOperation.status = "pending"
       /\ PostOf(posts, cycles[1].reqs[i].post).videoGenerationStatus = ""

\* requests for post p whose status check or download has not been handled
InFlight(p) == {ci \in RequestsFor(p) : Req(ci).st # "done"}
\* requests for post p whose handling wrote terminal fields of p
TerminalWrites(p) == {ci \in RequestsFor(p) : Req(ci).res \in {"completed", "failed", "fetchfailed"}}

\* C14: two poll cycles never work on the same job at the same time: at most
\* one status check or download for a post is in flight, a tick issues no
\* request for a post that has one in flight, and at most one cycle writes
\* the terminal fields of a post.
C14_NoOverlappingCycles ==
  \A p \in PostIds :
    /\ Cardinality(InFlight(p)) <= 1
    /\ Cardinality(TerminalWrites(p)) <= 1
    /\ fetchCalls(p) <= 1

\* the job of post record q was reconciled as completed or failed
Reconciled(q) == ~q.isGeneratingVideo /\ q.videoOperation.status \in {"completed", "failed"}

\* C15: the terminal job states are absorbing: once the job of a post has
\* been reconciled as completed or failed, no step of the poller changes the
\* status of its job handle, its status text or its video URL.
C15_TerminalAbsorbing ==
  [][ \A q \in PostIds :
        (Exists(posts, q) /\ Reconciled(PostOf(posts, q))) =>
          /\ Exists(posts', q)
          /\ PostOf(posts', q).videoOperation.status = PostOf(posts, q).videoOperation.status
          /\ PostOf(posts', q).videoGenerationStatus = PostOf(posts, q).videoGenerationStatus
          /\ PostOf(posts', q).generatedVideoUrl = PostOf(posts, q).generatedVideoUrl ]_vars

VideoFields(q) ==
  <<q.generatedVideoUrl, q.isGeneratingVideo, q.videoGenerationStatus, q.videoOperation>>
OtherFields(q) == <<q.id, q.topic, q.status, q.scheduledAt>>

\* C16: the video-related fields of a post change only in a step in which
\* the poller handles a result of that post, and only if the post's
\* isGeneratingVideo is true when the change is applied; no other operation
\* (updatePost, deletePost) changes them.
C16_VideoFieldsOwnedByPoller ==
  [][ \A q \in PostIds :
        (Exists(posts, q) /\ Exists(posts', q)
           /\ VideoFields(PostOf(posts', q)) # VideoFields(PostOf(posts, q))) =>
          /\ Handled(q)
          /\ PostOf(posts, q).isGeneratingVideo ]_vars

\* a step in which the poller applies results to the collection
PollerStep ==
  \/ \E c \in 1..Len(cycles) : JoinStep(c)
  \/ \E c \in 1..Len(cycles) : \E i \in 1..Len(cycles[c].reqs) : DownloadStep(c, i)

\* C17: every poller update replaces by id in the collection as it is when
\* the update is applied: the collection keeps its members and their order,
\* a post changes only if a result of its own is handled, and then only in
\* its video fields; a result for a post that is no longer in the collection
\* does not add it.
C17_PollerFrame ==
  [][ PollerStep =>
        /\ Len(posts') = Len(posts)
        /\ \A k \in 1..Len(posts) :
             /\ OtherFields(posts'[k]) = OtherFields(posts[k])
             /\ posts'[k] # posts[k] => Handled(posts[k].id)
        /\ \A q \in PostIds : Exists(posts', q) <=> Exists(posts, q) ]_vars

\* a cycle handled a failed result for a post that the user had deleted, and
\* a result of another post, which is still in the list with its new text;
\* the deleted post is not in the list
C17_Witness ==
  \E c \in 1..Len(cycles) : \E i, j \in 1..Len(cycles[c].reqs) :
    /\ cycles[c].joined
    /\ cycles[c].reqs[i].res = "failed"
    /\ ~Exists(posts, cycles[c].reqs[i].post)
    /\ cycles[c].reqs[j].res = "progress"
    /\ Exists(posts, cycles[c].reqs[j].post)
    /\ PostOf(posts, cycles[c].reqs[j].post).videoGenerationStatus = "Processing... 40%"
    /\ PostOf(posts, cycles[c].reqs[j].post).status = "draft"
    /\ deleteCalls = 1

----------------------------------------------------------------------------
(* Properties of the scheduled-post publisher *)

\* a step in which the scheduled-post timer fires
ScanStep == Len(scans') = Len(scans) + 1

\* entry q is held by the post list with status scheduled, a scheduled time,
\* and that time not after t
DueAt(ps, q, t) ==
  /\ Exists(ps, q)
  /\ PostOf(ps, q).status = "scheduled"
  /\ PostOf(ps, q).scheduledAt # NoSchedule
  /\ PostOf(ps, q).scheduledAt <= t

InBatch(sc, q) == \E k \in 1..Len(sc.batch) : sc.batch[k] = q

\* C6: a scheduled-scan hands to the publish operation only posts whose status
\* is scheduled, that have a scheduled time, and whose time is at or before the
\* time of the scan; and it hands over each such post, once.  Publish flows
\* exist for the entries of a batch only.
C6_OnlyDuePostsPublished ==
  [][ScanStep =>
       LET sc == scans'[Len(scans')] IN
         /\ \A q \in PostIds : InBatch(sc, q) <=> DueAt(posts, q, now')
         /\ \A j, k \in 1..Len(sc.batch) : sc.batch[j] = sc.batch[k] => j = k
         /\ Len(sc.flows) = Len(sc.batch)
         /\ \A k \in 1..Len(sc.flows) :
              sc.flows[k].st # "todo" => DueAt(posts, sc.batch[k], now')]_vars

\* a scan at the very time of post 1 publishes it, while post 2, scheduled
\* for later, and still in the list, is left out
C6_Witness ==
  /\ Len(scans) = 1
  /\ scans[1].batch = <<1>>
  /\ scans[1].flows[1].st = "publishing"
  /\ Exists(posts, 1) /\ PostOf(posts, 1).scheduledAt = now
  /\ Exists(posts, 2) /\ PostOf(posts, 2).status = "scheduled"
  /\ PostOf(posts, 2).scheduledAt > now

\* the publish flow of entry k of scan s met a failure
FlowFailed(f) == f.invalid \/ f.threw \/ f.archiveFailed \/ f.deleteFailed

\* C7: when a due post fails at any stage of its publish flow (validation,
\* thrown publish error, failed archive, failed delete), the flow has emitted
\* an error notification once it is over, and the scan goes on with the posts
\* after it: a batch with no flow in flight has no entry left untried.
C7_FailureNotifiedAndScanGoesOn ==
  \A s \in 1..Len(scans) :
    /\ \A k \in 1..Len(scans[s].flows) :
         (scans[s].flows[k].st = "done" /\ FlowFailed(scans[s].flows[k]))
           => scans[s].flows[k].errNotified
    /\ Current(s) = 0 => \A k \in 1..Len(scans[s].flows) : scans[s].flows[k].st = "done"

PositionOf(ps, p) == CHOOSE i \in IndexOf(ps, p) : TRUE

\* C20: within one scan the due posts are published one after the other in
\* the order of the collection: the batch lists them in collection order, and
\* the publish flow of an entry has started only if the flows of all entries
\* before it are over (finished or failed).
C20_SequentialInOrder ==
  /\ [](\A s \in 1..Len(scans) : \A j, k \in 1..Len(scans[s].flows) :
          (j < k /\ scans[s].flows[k].st # "todo") => scans[s].flows[j].st = "done")
  /\ [][ScanStep =>
          LET sc == scans'[Len(scans')] IN
            \A j, k \in 1..Len(sc.batch) :
              j < k => PositionOf(posts, sc.batch[j]) < PositionOf(posts, sc.batch[k])]_vars
  /\ [][\A s \in 1..Len(scans) : \A k \in 1..Len(scans[s].flows) :
          (scans[s].flows[k].st = "todo" /\ scans'[s].flows[k].st # "todo") =>
            \A j \in 1..(k - 1) : scans'[s].flows[j].st = "done"]_vars

\* the publish of the first due post threw and its flow is over; the flow of
\* the second due post, later in the list, is now waiting for its publish
C20_Witness ==
  \E s \in 1..Len(scans) :
    /\ Len(scans[s].batch) = 2
    /\ scans[s].batch[1] < scans[s].batch[2]
    /\ scans[s].flows[1].st = "done"
    /\ scans[s].flows[1].threw
    /\ scans[s].flows[2].st = "publishing"

PublishedNotification(p) == Notification("post_published", "Post Published", p)
PublishingError == Notification("error", "Publishing Error", 0)

\* C13: the per-platform results decide the notification of a publish flow
\* that ran to its end: a success notification for the post when at least one
\* result has success = true, and otherwise no success notification but a
\* failure notification.
C13_ResultsDecideNotification ==
  [][ \A s \in 1..Len(scans) : \A k \in 1..Len(scans[s].flows) :
        (scans[s].flows[k].st = "deleting" /\ scans'[s].flows[k].st = "done") =>
          LET p == scans[s].batch[k] IN
            IF scans[s].flows[k].succ >= 1
              THEN CopiesIn(PublishedNotification(p), notifications')
                     = CopiesIn(PublishedNotification(p), notifications) + 1
              ELSE /\ CopiesIn(PublishedNotification(p), notifications')
                        = CopiesIn(PublishedNotification(p), notifications)
                   /\ CopiesIn(PublishingError, notifications')
                        = CopiesIn(PublishingError, notifications) + 1 ]_vars

\* the flows of post p that were handed to publishingService.publishPost
HandedToPublish(p) ==
  {sk \in {<<s, k>> : s \in 1..Len(scans), k \in 1..MaxFlows} :
     /\ sk[2] <= Len(scans[sk[1]].batch)
     /\ scans[sk[1]].batch[sk[2]] = p
     /\ scans[sk[1]].flows[sk[2]].st # "todo"
     /\ ~scans[sk[1]].flows[sk[2]].invalid}

\* C25: a due post is handed to the publish operation at most once unless an
\* earlier attempt failed: of the flows of one post that were handed to it, at
\* most one has not ended in a failure
C25_PublishedAtMostOnce ==
  \A p \in PostIds :
    Cardinality({sk \in HandedToPublish(p) : ~FlowFailed(scans[sk[1]].flows[sk[2]])}) <= 1

\* the step in which the publish of entry k of scan s returns its results
ResultsStep(s, k) ==
  /\ scans[s].flows[k].st = "publishing"
  /\ scans'[s].flows[k].st # "publishing"
  /\ ~scans'[s].flows[k].threw

\* C26: an auto-published post is archived and deleted with the user and the
\* workspace that are current at scan time: when the results arrive while a
\* user and a workspace are rendered, the flow goes on to the archive request
C26_PublishUsesCurrentSession ==
  [][\A s \in 1..Len(scans) : \A k \in 1..Len(scans[s].flows) :
       (ResultsStep(s, k) /\ user # NoUser /\ workspaceId # NoWorkspace)
       => scans'[s].flows[k].st = "archiving"
    ]_vars

----------------------------------------------------------------------------
(* Properties of the lifecycle *)

\* a user is authenticated, a workspace is resolved, the component is mounted
SessionUp == user # NoUser /\ workspaceId # NoWorkspace /\ mounted

\* C12: the video-poll interval and the scheduled-publish interval exist only
\* while a user is authenticated and a workspace is resolved, always both and
\* one of each; a step that ends that state (logout, workspace lost, unmount)
\* leaves no interval, a workspace change leaves no second one, and a timer
\* callback runs only in a state where the session is up.
C12_TimersFollowSession ==
  /\ [](/\ (Running("poll") \/ Running("schedule")) => SessionUp
        /\ CopiesIn("poll", timers) <= 1
        /\ CopiesIn("schedule", timers) <= 1
        /\ Running("poll") <=> Running("schedule"))
  /\ [][(TickStep \/ ScanStep) => SessionUp]_vars
  /\ [][(user' = NoUser \/ workspaceId' = NoWorkspace \/ ~mounted') => timers' = EmptyBag]_vars

\* the poll timer fired during a session, then the user signed out and no
\* interval is left
C12_Witness ==
  /\ Len(cycles) >= 1
  /\ mounted
  /\ user = NoUser
  /\ workspaceId = NoWorkspace
  /\ timers = EmptyBag

\* C18: whenever an interval is running, the post collection was loaded for
\* the workspace of the session, and a timer callback never runs on posts
\* loaded for another workspace.
C18_TimersOnCurrentWorkspace ==
  /\ []((Running("poll") \/ Running("schedule")) => loadedFor = workspaceId)
  /\ [][(TickStep \/ ScanStep) => loadedFor = workspaceId]_vars

\* C19: a status or download response handled after the session was torn
\* down (logout, workspace lost, unmount) is discarded: the step that handles
\* it changes no post and emits no notification.
C19_LateResultsDiscarded ==
  [][(PollerStep /\ ~SessionUp) => (posts' = posts /\ notifications' = notifications)]_vars

\* the user is authenticated, the workspace is resolved and its data is loaded
LoadedSession ==
  /\ mounted
  /\ user # NoUser
  /\ workspaceId # NoWorkspace
  /\ dataLoadedRef
  /\ currentWorkspaceRef = workspaceId

\* C24: once the user is authenticated, the workspace resolved and the initial
\* load has succeeded, both timers are started in the end, unless the user or
\* the workspace changes again or the component unmounts first
C24_TimersStartAfterLoad ==
  \A n \in 0..MaxEvents :
    (LoadedSession /\ authEvents = n)
      ~> ((Running("schedule") /\ Running("poll")) \/ authEvents # n \/ ~mounted)

----------------------------------------------------------------------------
(* Properties of the AuthProvider *)

\* the step in which an auth event or a context call is delivered
CallStep(name) == authEvents' = authEvents + 1 /\ lastCall'.name = name

\* the step in which promise k returns r
SettleStep(k, r) ==
  /\ fetches[k].st # "done"
  /\ fetches'[k].st = "done"
  /\ fetches'[k].result = r

\* C21: profile requests are deduplicated: at any time at most one profile
\* request is in flight, and the promise of a fetch that is in flight is the
\* one the cache hands to every further call for its user
C21_ProfileRequestsDeduplicated ==
  /\ Cardinality(InFlightFetches(fetches)) <= 1
  /\ \A k \in InFlightFetches(fetches) : profileCacheRef[fetches[k].userId] = k

\* C22: once a sign-in event (SIGNED_IN, TOKEN_REFRESHED, USER_UPDATED) of a
\* user with a complete profile is fully processed, workspaceId and userRole
\* hold the values of that profile: both when the handler's await ends in the
\* step of the event (the promise handed back had already returned the
\* profile) and when the awaited promise returns the profile later
C22_SignInLoadsProfile ==
  [][/\ \A u \in Users :
          LET r == fetchUserProfile(fetches, profileCacheRef, fetchInProgressRef, u, 0) IN
          (/\ CallStep("SIGNED_IN")
           /\ lastCall'.processed
           /\ lastCall'.user = u
           /\ r.ret # 0
           /\ r.fetches[r.ret].result = "profile")
          => /\ workspaceId' = Profile(u).workspace_id
             /\ userRole' = Profile(u).role
     /\ \A k \in 1..Len(fetches) :
          SettleStep(k, "profile")
          => /\ workspaceId' = Profile(fetches[k].userId).workspace_id
             /\ userRole' = Profile(fetches[k].userId).role
    ]_vars

\* C23: while a processed SIGNED_OUT is the last thing that happened to the
\* context (no later sign-in, refresh or call), user, session, workspaceId
\* and userRole are all null, whatever profile fetch was in flight
C23_SignedOutStaysNull ==
  (lastCall.name = "SIGNED_OUT" /\ lastCall.processed)
  => /\ user = NoUser
     /\ session = NoUser
     /\ workspaceId = NoWorkspace
     /\ userRole = NoRole

\* C27: a call chain makes at most 4 attempts (retryCount never exceeds
\* maxRetries); a promise that returns null has set workspaceId and userRole
\* to null; and every promise that returns leaves fetchInProgressRef false
C27_FetchGivesUpCleanly ==
  /\ [](\A k \in 1..Len(fetches) : fetches[k].retryCount <= maxRetries)
  /\ [][\A k \in 1..Len(fetches) :
          /\ SettleStep(k, "null")
             => /\ workspaceId' = NoWorkspace
                /\ userRole' = NoRole
          /\ (fetches[k].st # "done" /\ fetches'[k].st = "done")
             => ~fetchInProgressRef'
       ]_vars

\* C28: an auth event that arrives before the initial load has finished
\* changes nothing, and once initializeAuth has ended with loading = false a
\* SIGNED_IN or SIGNED_OUT event is processed: it sets user and session (and,
\* for SIGNED_OUT, clears workspaceId and userRole)
C28_EventsAfterInitProcessed ==
  [][/\ (authEvents' = authEvents + 1 /\ lastCall'.name \in {"SIGNED_IN", "SIGNED_OUT"}
         /\ initializeAuth.pc # "done")
        => UNCHANGED <<user, session, workspaceId, userRole, fetches>>
     /\ (CallStep("SIGNED_IN") /\ initializeAuth.pc = "done" /\ ~loading)
        => /\ user' = lastCall'.user
           /\ session' = lastCall'.user
     /\ (CallStep("SIGNED_OUT") /\ initializeAuth.pc = "done" /\ ~loading)
        => /\ user' = NoUser
           /\ session' = NoUser
           /\ workspaceId' = NoWorkspace
           /\ userRole' = NoRole
    ]_vars


----------------------------------------------------------------------------
(* Properties of the API routes *)

\* the workspace id or a field of the body the route requires is not there
MissingField(req) ==
  \E field \in Reads(req.route) \ {"json", "id", "base64"} : req[field] = Unread[field]

\* the handler made no query and no upload and left every table and the
\* bucket as they were
NoReadNoWrite ==
  /\ response'.reads = 0
  /\ response'.writes = 0
  /\ db' = db

----------------------------------------------------------------------------
(* Properties of the MigrationService *)

\* every stored post is a row of the workspace and every stored platform is
\* connected in it
AllMigrated(ls, tables, w) ==
  /\ \A k \in 1..Len(ls.socialMediaPosts.items) :
       tables.posts[ls.socialMediaPosts.items[k]] = w
  /\ \A k \in 1..Len(ls.social_media_credentials.items) :
       ls.social_media_credentials.items[k] \in tables.credentials[w]

\* an iteration of the loop over the stored posts ended with an error
PostFailed ==
  /\ migration.pc \in {"getPostById", "createPost"}
  /\ migration'.errors = migration.errors + 1

\* C30: migrateAllData marks the migration as completed, so that
\* needsMigration() is false from then on, only when every stored post and
\* credential was migrated or was in the database already; a post that is
\* in the database is not created again; a failure on one post does not
\* stop the migration of the posts after it
C30_CompletedOnlyWhenAllMigrated ==
  [][/\ needsMigration(localStorage) /\ ~needsMigration(localStorage') =>
          AllMigrated(localStorage', db', migration'.workspaceId)
     /\ migration'.pc = "createPost" /\ migration.pc # "createPost" =>
          db.posts[LocalPost] # migration.workspaceId
     /\ PostFailed /\ migration.i < Len(localStorage.socialMediaPosts.items) =>
          migration'.pc = "getPostById" /\ migration'.i = migration.i + 1]_vars

====
